---- MODULE Spec2Model ----
(***************************************************************************)
(* Verification model of the Discord Solana-address scanner content        *)
(* script (src/unnamed/part_001): message buffering, candidate extraction, *)
(* the multi-provider verification race, the address registry and the      *)
(* forward to the Bloom bot.                                               *)
(*                                                                         *)
(* Strings are sequences of one-character strings, so that lengths,        *)
(* character classes and regular expressions are computed, not assumed.    *)
(* JavaScript runs every handler to completion: one action of the model is *)
(* one task of the event loop (a delivered message, a provider's answer, a *)
(* timer, a click) or one continuation of an await.                        *)
(*                                                                         *)
(* Three specifications share the module: Spec is the detection pipeline   *)
(* with the race of the providers reduced to its outcome, SpecVerify (and  *)
(* SpecVerifyFair) follows one call of fullTokenVerification provider by   *)
(* provider, SpecStore feeds the window store with a long stream of        *)
(* messages.                                                               *)
(***************************************************************************)
EXTENDS Integers, Sequences, FiniteSets, TLC

(***************************************************************************)
(* Program constants.                                                      *)
(***************************************************************************)
MAX_WINDOW_SIZE == 10
MAX_BUFFER_SIZE == 20
BUFFER_TIME_WINDOW_MS == 10000
MinAddressLen == 32
MaxAddressLen == 44
MinTextLen == 5
JupiterTimeoutMs == 8000
BirdeyeTimeoutMs == 8000
RegistryTimeoutMs == 5000

(***************************************************************************)
(* Characters and character classes of the regular expressions.            *)
(***************************************************************************)
Digits == {"0", "1", "2", "3", "4", "5", "6", "7", "8", "9"}
UpperCase ==
    {"A", "B", "C", "D", "E", "F", "G", "H", "I", "J", "K", "L", "M",
     "N", "O", "P", "Q", "R", "S", "T", "U", "V", "W", "X", "Y", "Z"}
LowerCase ==
    {"a", "b", "c", "d", "e", "f", "g", "h", "i", "j", "k", "l", "m",
     "n", "o", "p", "q", "r", "s", "t", "u", "v", "w", "x", "y", "z"}
\* [1-9A-HJ-NP-Za-km-z]
Base58 == (Digits \ {"0"}) \cup (UpperCase \ {"I", "O"}) \cup (LowerCase \ {"l"})
\* \w
WordChars == Digits \cup UpperCase \cup LowerCase \cup {"_"}
\* \s (the white space the model's texts can hold)
SpaceChars == {" ", "\n", "\t"}
\* what the dot of a regular expression does not match
LineTerminators == {"\n"}

Min(S) == CHOOSE x \in S : \A y \in S : x <= y
Max(S) == CHOOSE x \in S : \A y \in S : x >= y

\* n copies of the character c
Rep(c, n) == [i \in 1..n |-> c]

\* the character at position i, "" outside the string
At(s, i) == IF i \in 1..Len(s) THEN s[i] ELSE ""

\* the length of the longest run of characters of class C starting at i
RunLen(s, i, C) == Min({j \in i..(Len(s) + 1) : At(s, j) \notin C}) - i

\* whether the literal lit occurs in s at position i
LitAt(s, i, lit) ==
    /\ i >= 1
    /\ i + Len(lit) - 1 <= Len(s)
    /\ \A k \in 1..Len(lit) : s[i + k - 1] = lit[k]

\* String.prototype.includes
Includes(s, lit) == \E i \in 1..(Len(s) + 1) : LitAt(s, i, lit)

\* String.prototype.endsWith
EndsWith(s, lit) == Len(lit) <= Len(s) /\ LitAt(s, Len(s) - Len(lit) + 1, lit)

\* String.prototype.substring(from) with a 0-based index
SubstringFrom(s, from) == IF from >= Len(s) THEN <<>> ELSE SubSeq(s, from + 1, Len(s))

\* \b at the gap before position i
WordBoundary(s, i) == (At(s, i - 1) \in WordChars) # (At(s, i) \in WordChars)

(***************************************************************************)
(* A regular expression is modelled by its match length at a position      *)
(* (0: no match there; no expression of the program matches the empty      *)
(* string).  The global scan takes the leftmost match, then goes on after  *)
(* it, like String.prototype.match and replace with the g flag.            *)
(***************************************************************************)
RECURSIVE ScanMatches(_, _, _)
ScanMatches(s, lens, i) ==
    LET hits == {j \in i..Len(s) : lens[j] > 0}
        p    == Min(hits)
    IN  IF hits = {} THEN <<>>
        ELSE <<SubSeq(s, p, p + lens[p] - 1)>> \o ScanMatches(s, lens, p + lens[p])

RECURSIVE ScanRemove(_, _, _)
ScanRemove(s, lens, i) ==
    LET hits == {j \in i..Len(s) : lens[j] > 0}
        p    == Min(hits)
    IN  IF hits = {} THEN SubSeq(s, i, Len(s))
        ELSE SubSeq(s, i, p - 1) \o ScanRemove(s, lens, p + lens[p])

\* text.match(/re/g) || []
MatchAll(s, M(_, _)) == ScanMatches(s, [i \in 1..Len(s) |-> M(s, i)], 1)

\* text.replace(/re/g, '')
RemoveAll(s, M(_, _)) == ScanRemove(s, [i \in 1..Len(s) |-> M(s, i)], 1)

\* the position of the leftmost match, 0 when there is none
FirstMatchPos(s, M(_, _)) ==
    LET hits == {i \in 1..Len(s) : M(s, i) > 0}
    IN  IF hits = {} THEN 0 ELSE Min(hits)

\* /[C]{lo,hi}/ at i: greedy, no boundary
RunMatch(s, i, C, lo, hi) ==
    LET r == RunLen(s, i, C)
    IN  IF r >= lo THEN (IF r > hi THEN hi ELSE r) ELSE 0

\* /\b[C]{lo,hi}\b/ at i: greedy, backtracking to a shorter run that ends on a boundary
BoundedRunMatch(s, i, C, lo, hi) ==
    LET r  == RunLen(s, i, C)
        ks == {k \in lo..(IF r > hi THEN hi ELSE r) : WordBoundary(s, i + k)}
    IN  IF WordBoundary(s, i) /\ ks # {} THEN Max(ks) ELSE 0

\* String.prototype.trim
Trim(s) ==
    LET keep == {i \in 1..Len(s) : s[i] \notin SpaceChars}
    IN  IF keep = {} THEN <<>> ELSE SubSeq(s, Min(keep), Max(keep))

(***************************************************************************)
(* The pure text functions of the content script.                          *)
(***************************************************************************)
\* JavaScript's null (no string of the program that is tested against it is empty)
Null == <<>>

LitToday == <<"T", "o", "d", "a", "y", " ", "a", "t", " ">>
LitYesterday == <<"Y", "e", "s", "t", "e", "r", "d", "a", "y", " ", "a", "t", " ">>
LitDataAddress == <<"d", "a", "t", "a", "-", "a", "d", "d", "r", "e", "s", "s", "=", "\"">>
LitStyle == <<"s", "t", "y", "l", "e", "=", "\"">>
LitVerifying == <<"V", "e", "r", "i", "f", "y", "i", "n", "g">>
LitPump == <<"p", "u", "m", "p">>
LitMSNJn == <<"M", "S", "N", "J", "n">>
LitCA == <<"C", "A">>

\* /\d+:\d+/ at i
ClockMatch(s, i) ==
    LET d1 == RunLen(s, i, Digits)
        d2 == RunLen(s, i + d1 + 1, Digits)
    IN  IF d1 >= 1 /\ At(s, i + d1) = ":" /\ d2 >= 1 THEN d1 + 1 + d2 ELSE 0

\* /\d+:\d+\s*[AP]M/ at i
TimeMatch(s, i) ==
    LET c  == ClockMatch(s, i)
        sp == RunLen(s, i + c, SpaceChars)
    IN  IF c > 0 /\ At(s, i + c + sp) \in {"A", "P"} /\ At(s, i + c + sp + 1) = "M"
        THEN c + sp + 2 ELSE 0

\* /Today at \d+:\d+\s*[AP]M/ at i
TodayMatch(s, i) ==
    IF LitAt(s, i, LitToday) /\ TimeMatch(s, i + Len(LitToday)) > 0
    THEN Len(LitToday) + TimeMatch(s, i + Len(LitToday)) ELSE 0

\* /Yesterday at \d+:\d+/ at i
YesterdayMatch(s, i) ==
    IF LitAt(s, i, LitYesterday) /\ ClockMatch(s, i + Len(LitYesterday)) > 0
    THEN Len(LitYesterday) + ClockMatch(s, i + Len(LitYesterday)) ELSE 0

\* /\[\d+:\d+\s*[AP]M\]/ at i
BracketTimeMatch(s, i) ==
    LET t == TimeMatch(s, i + 1)
    IN  IF At(s, i) = "[" /\ t > 0 /\ At(s, i + 1 + t) = "]" THEN t + 2 ELSE 0

cleanMessageText(text) ==
    IF text = <<>> THEN <<>>
    ELSE Trim(RemoveAll(RemoveAll(RemoveAll(RemoveAll(text,
             TodayMatch), TimeMatch), YesterdayMatch), BracketTimeMatch))

\* /<[^>]*>/ at i
TagMatch(s, i) ==
    LET closes == {j \in (i + 1)..Len(s) : s[j] = ">"}
    IN  IF At(s, i) = "<" /\ closes # {} THEN Min(closes) - i + 1 ELSE 0

\* /lit[^"]*"/ at i, lit ending in the opening quote
QuotedMatch(s, i, lit) ==
    LET closes == {j \in (i + Len(lit))..Len(s) : s[j] = "\""}
    IN  IF LitAt(s, i, lit) /\ closes # {} THEN Min(closes) - i + 1 ELSE 0

DataAddressMatch(s, i) == QuotedMatch(s, i, LitDataAddress)
StyleMatch(s, i) == QuotedMatch(s, i, LitStyle)

\* /Verifying.../ at i
VerifyingMatch(s, i) ==
    IF /\ LitAt(s, i, LitVerifying)
       /\ i + Len(LitVerifying) + 2 <= Len(s)
       /\ \A k \in 0..2 : s[i + Len(LitVerifying) + k] \notin LineTerminators
    THEN Len(LitVerifying) + 3 ELSE 0

\* /[1-9A-HJ-NP-Za-km-z]{32,44}/ at i
AddressRunMatch(s, i) == RunMatch(s, i, Base58, MinAddressLen, MaxAddressLen)

\* lines 45-50: tags, attributes and the marker text are removed
StripFraming(address) ==
    Trim(RemoveAll(RemoveAll(RemoveAll(RemoveAll(address,
        TagMatch), DataAddressMatch), StyleMatch), VerifyingMatch))

\* faulty variant: the run of line 52 taken whole, without the bound of 44
sanitizeAddress_WholeRun(address) ==
    LET cleanedAddress == StripFraming(address)
        p == FirstMatchPos(cleanedAddress, AddressRunMatch)
    IN  IF p = 0 THEN Null
        ELSE SubSeq(cleanedAddress, p, p + RunLen(cleanedAddress, p, Base58) - 1)

sanitizeAddress(address) ==
    LET cleanedAddress == StripFraming(address)
        p == FirstMatchPos(cleanedAddress, AddressRunMatch)
    IN  IF p = 0 THEN Null
        ELSE SubSeq(cleanedAddress, p, p + AddressRunMatch(cleanedAddress, p) - 1)

\* length >= 32 && length <= 44 && /^[1-9A-HJ-NP-Za-km-z]{32,44}$/.test(s)
IsAddressShape(s) ==
    /\ Len(s) >= MinAddressLen
    /\ Len(s) <= MaxAddressLen
    /\ \A i \in 1..Len(s) : s[i] \in Base58

\* faulty variant: the format gate without the upper bound of line 428
FormatRejection_NoUpperBound(address) ==
    IF address = Null \/ Len(address) < MinAddressLen
    THEN "Invalid address format"
    ELSE IF ~(\A i \in 1..Len(address) : address[i] \in Base58)
         THEN "Invalid address characters"
         ELSE ""

\* faulty variant: the format gate without the test of line 431
FormatRejection_LengthOnly(address) ==
    IF address = Null \/ Len(address) < MinAddressLen \/ Len(address) > MaxAddressLen
    THEN "Invalid address format"
    ELSE ""

\* the format gate of fullTokenVerification: "" when the address passes
FormatRejection(address) ==
    IF address = Null \/ Len(address) < MinAddressLen \/ Len(address) > MaxAddressLen
    THEN "Invalid address format"
    ELSE IF ~(Len(address) >= 1 /\ \A i \in 1..Len(address) : address[i] \in Base58)
         THEN "Invalid address characters"
         ELSE ""

\* solanaAddressRegex = /\b[1-9A-HJ-NP-Za-km-z]{32,44}\b/g at i
solanaAddressRegex(s, i) == BoundedRunMatch(s, i, Base58, MinAddressLen, MaxAddressLen)

\* /[1-9A-HJ-NP-Za-km-z]{5,}/g at i
SequentialFragmentMatch(s, i) == RunMatch(s, i, Base58, 5, Len(s))

\* /[1-9A-HJ-NP-Za-km-z]{5,10}/g at i
PartialMatch(s, i) == RunMatch(s, i, Base58, 5, 10)

\* /\b[1-9A-HJ-NP-Za-km-z]{10,44}\b/g at i
fragmentPattern(s, i) == BoundedRunMatch(s, i, Base58, 10, MaxAddressLen)

\* /\b[1-9A-HJ-NP-Za-km-z]{10,31}\b/ at i
ShortRunMatch(s, i) == BoundedRunMatch(s, i, Base58, 10, MinAddressLen - 1)

\* the length of /CA:?\s*/ at i (0: no match)
CaPrefixLen(s, i) ==
    LET colon == IF At(s, i + 2) = ":" THEN 1 ELSE 0
    IN  IF LitAt(s, i, LitCA)
        THEN 2 + colon + RunLen(s, i + 2 + colon, SpaceChars)
        ELSE 0

\* /CA:?\s*([1-9A-HJ-NP-Za-km-z]{3,44})/g at i
CaMatch(s, i) ==
    LET p == CaPrefixLen(s, i)
        r == RunMatch(s, i + p, Base58, 3, MaxAddressLen)
    IN  IF p > 0 /\ r > 0 THEN p + r ELSE 0

\* /CA:?\s*[1-9A-HJ-NP-Za-km-z]/ at i
CaSignalMatch(s, i) ==
    LET p == CaPrefixLen(s, i)
    IN  IF p > 0 /\ At(s, i + p) \in Base58 THEN p + 1 ELSE 0

\* match.replace(/CA:?\s*/, ''): the first occurrence only
StripCaPrefix(m) ==
    LET hits == {i \in 1..Len(m) : CaPrefixLen(m, i) > 0}
        p    == Min(hits)
    IN  IF hits = {} THEN m
        ELSE SubSeq(m, 1, p - 1) \o SubSeq(m, p + CaPrefixLen(m, p), Len(m))

\* /\bpump\b/ at i
PumpWordMatch(s, i) ==
    IF WordBoundary(s, i) /\ LitAt(s, i, LitPump) /\ WordBoundary(s, i + 4) THEN 4 ELSE 0

\* /\bMSNJn(pump)?\b/ at i
MsnjnMatch(s, i) ==
    IF WordBoundary(s, i) /\ LitAt(s, i, LitMSNJn)
    THEN IF LitAt(s, i + 5, LitPump) /\ WordBoundary(s, i + 9) THEN 9
         ELSE IF WordBoundary(s, i + 5) THEN 5 ELSE 0
    ELSE 0

MapSeq(F(_), q) == [k \in 1..Len(q) |-> F(q[k])]

CaPart(m) ==
    [text |-> StripCaPrefix(m), type |-> "ca_prefix",
     isPumpEnding |-> EndsWith(StripCaPrefix(m), LitPump)]

FragmentPart(m) ==
    [text |-> m, type |-> "fragment", isPumpEnding |-> EndsWith(m, LitPump)]

findPotentialAddressParts(text) ==
    LET msnjn == FirstMatchPos(text, MsnjnMatch)
    IN  MapSeq(CaPart, MatchAll(text, CaMatch))
        \o (IF FirstMatchPos(text, PumpWordMatch) > 0
            THEN <<[text |-> LitPump, type |-> "pump_suffix", isPumpEnding |-> TRUE]>>
            ELSE <<>>)
        \o (IF msnjn > 0
            THEN <<[text |-> SubSeq(text, msnjn, msnjn + MsnjnMatch(text, msnjn) - 1),
                    type |-> "msnjn_suffix", isPumpEnding |-> TRUE]>>
            ELSE <<>>)
        \o MapSeq(FragmentPart, MatchAll(text, fragmentPattern))

(***************************************************************************)
(* Bounds of the model and the inputs the environment draws from.          *)
(***************************************************************************)
\* messages the observer delivers in one run of the pipeline
MaxDeliveries == 2
\* coroutines (checkForSolanaAddresses, checkSequentialMessages) suspended at once
MaxTasks == 3

\* the test address of the content script (part_001:1253)
TestAddress ==
    <<"4", "k", "3", "D", "y", "j", "z", "v", "z", "p", "8", "e", "M", "Z", "W",
      "U", "X", "b", "B", "C", "j", "E", "v", "w", "S", "k", "k", "k", "5", "9",
      "S", "5", "i", "C", "N", "L", "Y", "3", "Q", "r", "k", "X", "6", "R">>
\* two halves of an address split over two messages
HeadFragment == Rep("7", 16)
TailFragment == Rep("x", 12) \o LitPump
SplitAddress == HeadFragment \o TailFragment

\* textContent of the message elements the observer delivers to the pipeline
Texts == {TestAddress}
\* message elements: element 0 has no DOM id, element e > 0 carries the id e
Elements == {0, 1}
\* time that passes between two deliveries to the pipeline
Delays == {0}
\* what fullTokenVerification can resolve to once the providers were called
VerifiedBy(platform) == [verified |-> TRUE, platform |-> platform]
Unverified(reason) == [verified |-> FALSE, reason |-> reason]
AllFailed == Unverified("Failed verification with all APIs")
Outcomes == {VerifiedBy("Jupiter"), AllFailed}
\* what detectSplitAddressesWithAI can return after its fetch (already filtered)
AiAnswers == {<<>>, <<SplitAddress>>}

(***************************************************************************)
(* State.                                                                  *)
(***************************************************************************)
VARIABLES
    now,                    \* Date.now()
    RECENT_MESSAGES_BUFFER, \* the time-windowed buffer, oldest first
    messageWindow,          \* the sliding window, newest first
    processedMessageIds,
    foundAddresses,
    verificationResults,    \* Map: address -> verification result
    bloomSentAddresses,
    autoSendToBloom,        \* window.autoSendToBloom
    aiPrompt,               \* the escalations appended to the base prompt
    tasks,                  \* the coroutines suspended at an await
    buttons,                \* enabled 'Send to Bloom' buttons per address
    bloomRequests,          \* pasteToBloomTab messages sent, per address
    providerCalls,          \* verification races started, per address
    deliveries,             \* messages delivered so far
    delivered,              \* their textContent, in the order of delivery
    bloomResponse,          \* answers of the background script, per address
    \* one call of fullTokenVerification, provider by provider
    vAddress,               \* its argument
    vPc,                    \* "start", "racing", "returned", "threw"
    vResult,                \* what it returned
    provider,               \* the provider's fetch: "idle", "pending", "true", "false"
    wrapper,                \* the promise of verifyWithTimeout
    timer,                  \* its setTimeout: "none", "armed", "fired", "cleared"
    elapsed,                \* ms since the call
    returnedAt,             \* elapsed when the call returned
    \* chrome.storage.local and the calls of processAddress that use it
    storedAddresses,        \* the value stored under 'addresses'
    storageQueue,           \* get and set requests the store has not served yet
    storageReplies,         \* results of get requests whose callback has not run
    awaiting,               \* addresses of the calls suspended at line 742
    \* the scanner switch and the observer of the chat container
    isScanning,             \* line 14
    observer,               \* line 15: 0 for null, else the observer made
    attached,               \* the observers that observe the chat container
    observersMade,          \* `new MutationObserver` evaluated at line 1157
    ignoredCallbacks        \* callbacks of the observer that returned at line 1158

pipeVars ==
    <<now, RECENT_MESSAGES_BUFFER, messageWindow, processedMessageIds, foundAddresses,
      verificationResults, bloomSentAddresses, autoSendToBloom, aiPrompt, tasks,
      buttons, bloomRequests, providerCalls, deliveries, delivered, bloomResponse>>

raceVars == <<vAddress, vPc, vResult, provider, wrapper, timer, elapsed, returnedAt>>

storageVars == <<storedAddresses, storageQueue, storageReplies, awaiting>>

scannerVars == <<isScanning, observer, attached, observersMade, ignoredCallbacks>>

\* counters and maps over keys that appear at run time
Get(f, k) == IF k \in DOMAIN f THEN f[k] ELSE 0
Put(f, k, v) == [x \in (DOMAIN f) \cup {k} |-> IF x = k THEN v ELSE f[x]]
EmptyMap == [x \in {} |-> 0]

\* processAddress returned null
NullResult == [null |-> TRUE]
IsVerified(r) == IF r = NullResult THEN FALSE ELSE r.verified

\* the mutable globals a coroutine step reads and writes
World ==
    [found |-> foundAddresses, results |-> verificationResults,
     sent |-> bloomSentAddresses, auto |-> autoSendToBloom, prompt |-> aiPrompt,
     buttons |-> buttons, requests |-> bloomRequests, calls |-> providerCalls,
     buffer |-> RECENT_MESSAGES_BUFFER]

(***************************************************************************)
(* The dispatch gate and the registry step of processAddress.              *)
(***************************************************************************)
\* faulty variant: sendToBloomBot without the check of line 446
sendToBloomBot_Ungated(w, address) ==
    [w EXCEPT !.sent = @ \cup {address},
              !.requests = Put(@, address, Get(@, address) + 1)]

sendToBloomBot(w, address) ==
    IF address \in w.sent THEN w
    ELSE [w EXCEPT !.sent = @ \cup {address},
                   !.requests = Put(@, address, Get(@, address) + 1)]

\* the badge and the 'Send to Bloom' button shown for an address
AddButton(w, cleanAddress) ==
    IF cleanAddress = Null THEN w
    ELSE [w EXCEPT !.buttons = Put(@, cleanAddress, Get(@, cleanAddress) + 1)]

displayAddressInDOM(w, address) == AddButton(w, sanitizeAddress(address))

\* faulty variant: an address that did not verify is dropped from the registry
processAddressEnd_Forget(w, cleanAddress, info) ==
    IF info.verified
    THEN [w EXCEPT !.results = Put(@, cleanAddress, info)]
    ELSE [w EXCEPT !.found = @ \ {cleanAddress}]

\* faulty variant: the result is stored and nothing is forwarded
processAddressEnd_NoForward(w, cleanAddress, info) ==
    [w EXCEPT !.results = Put(@, cleanAddress, info)]

\* processAddress after `await fullTokenVerification`: lines 745-785
processAddressEnd(w, cleanAddress, info) ==
    IF w.auto = TRUE
    THEN sendToBloomBot([w EXCEPT !.results = Put(@, cleanAddress, info)], cleanAddress)
    ELSE [w EXCEPT !.results = Put(@, cleanAddress, info)]

\* faulty variant: the call starts the entry of the address afresh
processFreshAddress_Reset(w, cleanAddress, rej) ==
    [w |-> [displayAddressInDOM([w EXCEPT !.found = @ \cup {cleanAddress},
                                          !.sent = @ \ {cleanAddress}],
                                cleanAddress)
               EXCEPT !.calls = Put(@, cleanAddress, Get(@, cleanAddress) + 1)],
     pending |-> TRUE, addr |-> cleanAddress, ret |-> NullResult]

\* processAddress from line 722 on, up to `await fullTokenVerification`
processFreshAddress(w, cleanAddress, rej) ==
    IF rej # ""
    THEN [w |-> processAddressEnd(
                    displayAddressInDOM([w EXCEPT !.found = @ \cup {cleanAddress}],
                                        cleanAddress),
                    cleanAddress, Unverified(rej)),
          pending |-> FALSE, addr |-> cleanAddress, ret |-> Unverified(rej)]
    ELSE [w |-> [displayAddressInDOM([w EXCEPT !.found = @ \cup {cleanAddress}],
                                     cleanAddress)
                    EXCEPT !.calls = Put(@, cleanAddress, Get(@, cleanAddress) + 1)],
          pending |-> TRUE, addr |-> cleanAddress, ret |-> NullResult]

\* faulty variant: processAddress without the lookup of lines 715-720
processCleanAddress_NoCache(w, cleanAddress, rej) ==
    IF cleanAddress = Null
    THEN [w |-> w, pending |-> FALSE, addr |-> Null, ret |-> NullResult]
    ELSE processFreshAddress(w, cleanAddress, rej)

\* processAddress from line 708 to `await fullTokenVerification`, for the
\* sanitized address.  pending: the providers were called and the coroutine waits
\* for the race; addr: the address the call is about; ret: what it returned.
processCleanAddress(w, cleanAddress, rej) ==
    IF cleanAddress = Null
    THEN [w |-> w, pending |-> FALSE, addr |-> Null, ret |-> NullResult]
    ELSE IF cleanAddress \in w.found /\ cleanAddress \in DOMAIN w.results
    THEN [w |-> w, pending |-> FALSE, addr |-> cleanAddress,
          ret |-> w.results[cleanAddress]]
    ELSE processFreshAddress(w, cleanAddress, rej)

\* the format gate of fullTokenVerification for a sanitized address
GateOf(cleanAddress) == IF cleanAddress = Null THEN "" ELSE FormatRejection(cleanAddress)

\* processAddress up to `await fullTokenVerification`: lines 706-742
processAddressBegin(w, address) ==
    processCleanAddress(w, sanitizeAddress(address), GateOf(sanitizeAddress(address)))

(***************************************************************************)
(* Candidate lists of the strategies.                                      *)
(***************************************************************************)
IsOk(r) == r.ok
CandidateOf(r) == r.c

\* faulty variant: the reverse order is never tried
PairTry_ForwardOnly(fragment1, fragment2, forward) ==
    [c |-> fragment1 \o fragment2,
     ok |-> forward /\ IsAddressShape(fragment1 \o fragment2)]

\* one try of the loop body of lines 895-918: fragment1 + fragment2, or the reverse
PairTry(fragment1, fragment2, forward) ==
    IF forward
    THEN [c |-> fragment1 \o fragment2, ok |-> IsAddressShape(fragment1 \o fragment2)]
    ELSE [c |-> fragment2 \o fragment1,
          ok |-> /\ fragment2 \o fragment1 # fragment1 \o fragment2
                 /\ IsAddressShape(fragment2 \o fragment1)]

\* lines 893-920: the combinations of the fragments, in the order the loops try them
CombineFragments(fragments1, fragments2) ==
    MapSeq(CandidateOf, SelectSeq(
        [k \in 1..(2 * Len(fragments1) * Len(fragments2)) |->
            PairTry(fragments1[(((k - 1) \div 2) \div Len(fragments2)) + 1],
                    fragments2[(((k - 1) \div 2) % Len(fragments2)) + 1],
                    k % 2 = 1)],
        IsOk))

\* checkSequentialMessages, lines 884-920
SequentialCandidates(message1, message2) ==
    CombineFragments(MatchAll(message1, SequentialFragmentMatch),
                     MatchAll(message2, SequentialFragmentMatch))

IsPlainFragment(part) == part.type = "fragment" /\ ~part.isPumpEnding
IsSuffix(part) == part.isPumpEnding \/ part.type = "pump_suffix" \/ part.type = "msnjn_suffix"

\* String.prototype.substring(0, n)
Prefix(s, n) == SubSeq(s, 1, IF Len(s) < n THEN Len(s) ELSE n)

\* faulty variant: the suffix is always appended whole
CombineFragmentSuffix_Whole(fragment, suffix) == fragment \o suffix

\* line 1023
CombineFragmentSuffix(fragment, suffix) ==
    fragment \o (IF EndsWith(fragment, Prefix(suffix, 3))
                 THEN SubstringFrom(suffix, 3) ELSE suffix)

FragmentSuffixTry(fragment, suffix) ==
    [c |-> CombineFragmentSuffix(fragment, suffix),
     ok |-> IsAddressShape(CombineFragmentSuffix(fragment, suffix))]

\* lines 1021-1031: the combinations, in the order the loops try them
CombineWithSuffixes(fragments, suffixes) ==
    MapSeq(CandidateOf, SelectSeq(
        [k \in 1..(Len(fragments) * Len(suffixes)) |->
            FragmentSuffixTry(fragments[((k - 1) \div Len(suffixes)) + 1].text,
                              suffixes[((k - 1) % Len(suffixes)) + 1].text)],
        IsOk))

PartsCandidates(addressParts) ==
    CombineWithSuffixes(SelectSeq(addressParts, IsPlainFragment),
                        SelectSeq(addressParts, IsSuffix))

\* checkForSolanaAddresses, lines 1017-1031
FragmentSuffixCandidates(cleanedText) ==
    PartsCandidates(findPotentialAddressParts(cleanedText))

\* the trigger signal of lines 1010-1015
HasTriggerSignal(cleanedText) ==
    \/ Includes(cleanedText, LitPump)
    \/ Includes(cleanedText, LitMSNJn)
    \/ FirstMatchPos(cleanedText, CaSignalMatch) > 0
    \/ FirstMatchPos(cleanedText, ShortRunMatch) > 0

\* line 1039-1041
WithPumpSuffix(cleanedText, address) ==
    IF Includes(cleanedText, LitPump) /\ ~EndsWith(address, LitPump)
    THEN address \o LitPump ELSE address

\* the filter of detectSplitAddressesWithAI, line 661
FilterAiLines(lines) == SelectSeq(lines, IsAddressShape)

(***************************************************************************)
(* The coroutines.  A task is one call of checkForSolanaAddresses (kind    *)
(* "check") or of checkSequentialMessages (kind "seq"), suspended at an    *)
(* await:                                                                  *)
(*   pc "verify": inside processAddress, waiting for the race for addr;    *)
(*   pc "ai":     waiting for the fetch of detectSplitAddressesWithAI;     *)
(*   pc "ready":  the awaited promise is settled (ret, lines), the         *)
(*                continuation is queued as a microtask.                   *)
(* stage names the loop the task is in, cands what that loop has left.     *)
(***************************************************************************)
NewTask(kind, stage, text, element, cands) ==
    [kind |-> kind, pc |-> "ready", stage |-> stage, cands |-> cands, addr |-> Null,
     ret |-> NullResult, lines |-> <<>>, found |-> FALSE, attempts |-> 0,
     text |-> text, el |-> element, aiCalls |-> 0, prompt |-> Null, cand |-> Null,
     src |-> element]

Finished(w, t) == [w |-> w, t |-> [t EXCEPT !.pc = "done"]]

\* `await processAddress(address, ..., element, ...)`
Suspend(t, r, element) ==
    [w |-> r.w,
     t |-> [t EXCEPT !.pc = IF r.pending THEN "verify" ELSE "ready",
                     !.addr = r.addr, !.ret = r.ret, !.el = element]]

AwaitProcessAddress(w, t, address, element) ==
    Suspend([t EXCEPT !.cand = address], processAddressBegin(w, address), element)

\* the system prompt of a request: the prompt variable it starts from and the
\* escalations appended to it so far
BasePrompt == [base |-> "aiPrompt", escalations |-> <<>>]
CurrentPrompt(w) == [base |-> "aiPrompt", escalations |-> w.prompt]
TwoMessagePrompt == [base |-> "twoMessagePrompt", escalations |-> <<>>]

\* `await detectSplitAddressesWithAI(text, prompt)`: line 632 returns [] at once,
\* line 636 sends the request (aiCalls counts the requests of the coroutine)
AwaitAI(w, t, text, prompt) ==
    IF Len(text) < 20
    THEN [w |-> w, t |-> [t EXCEPT !.pc = "ready", !.lines = <<>>]]
    ELSE [w |-> w, t |-> [t EXCEPT !.pc = "ai", !.aiCalls = @ + 1, !.prompt = prompt]]

\* the while loop of lines 1035-1056, at its head
AiLoop(w, t) ==
    IF ~t.found /\ t.attempts > 0
    THEN AwaitAI(w, [t EXCEPT !.stage = "aiWait"], t.text, CurrentPrompt(w))
    ELSE Finished(w, t)

\* lines 1049-1055: no candidate of this attempt verified
AppendPartials(w, partials) ==
    IF partials # <<>> THEN [w EXCEPT !.prompt = Append(@, partials)] ELSE w

Escalate(w, t) ==
    AiLoop(AppendPartials(w, MatchAll(t.text, PartialMatch)), [t EXCEPT !.attempts = @ - 1])

\* the for loop of lines 1038-1048, at its head
AiAddressLoop(w, t) ==
    IF t.cands # <<>>
    THEN AwaitProcessAddress(w, [t EXCEPT !.stage = "aiAddrs", !.cands = Tail(@)],
                             WithPumpSuffix(t.text, Head(t.cands)), t.el)
    ELSE Escalate(w, t)

\* faulty variant: four attempts
EnterAi_FourAttempts(w, t) ==
    IF ~t.found THEN AiLoop(w, [t EXCEPT !.attempts = 4]) ELSE Finished(w, t)

\* lines 1033-1034
EnterAi(w, t) ==
    IF ~t.found THEN AiLoop(w, [t EXCEPT !.attempts = 3]) ELSE Finished(w, t)

\* the loops of lines 1021-1031, at the head
CombineLoop(w, t) ==
    IF t.cands # <<>>
    THEN AwaitProcessAddress(w, [t EXCEPT !.stage = "combine", !.cands = Tail(@)],
                             Head(t.cands), t.el)
    ELSE EnterAi(w, t)

\* lines 1010-1019
EnterCombine(w, t) ==
    IF ~t.found /\ HasTriggerSignal(t.text)
    THEN CombineLoop(w, [t EXCEPT !.cands = FragmentSuffixCandidates(t.text)])
    ELSE Finished(w, t)

\* the for loop of lines 1002-1007, at its head
MatchLoop(w, t) ==
    IF t.cands # <<>>
    THEN AwaitProcessAddress(w, [t EXCEPT !.stage = "matches", !.cands = Tail(@)],
                             Head(t.cands), t.el)
    ELSE EnterCombine(w, t)

\* the element checkSequentialMessages reads at each call: lines 903, 916, 940
NewestElement(w) == w.buffer[Len(w.buffer)].element

\* lines 938-942, at the head: addresses already found are skipped without an await
FirstFresh(w, cands) ==
    IF \A i \in 1..Len(cands) : cands[i] \in w.found THEN 0
    ELSE Min({i \in 1..Len(cands) : cands[i] \notin w.found})

PairAiFrom(w, t, first) ==
    IF first = 0 THEN Finished(w, t)
    ELSE AwaitProcessAddress(w,
             [t EXCEPT !.stage = "pairAi", !.cands = SubSeq(@, first + 1, Len(@))],
             t.cands[first], NewestElement(w))

PairAiLoop(w, t) == PairAiFrom(w, t, FirstFresh(w, t.cands))

\* lines 893-936, at the head of the loops
PairFrom(w, t, first) ==
    IF first = 0
    THEN AwaitAI(w, [t EXCEPT !.stage = "pairAiWait", !.cands = <<>>], t.text,
                 TwoMessagePrompt)
    ELSE AwaitProcessAddress(w,
             [t EXCEPT !.stage = "pairs", !.cands = SubSeq(@, first + 1, Len(@))],
             t.cands[first], NewestElement(w))

PairLoop(w, t) == PairFrom(w, t, FirstFresh(w, t.cands))

\* the continuation of a task whose awaited promise is settled
ResumeTask(w, t) ==
    CASE t.stage = "matches" ->
            MatchLoop(w, [t EXCEPT !.found = @ \/ IsVerified(t.ret)])
      [] t.stage = "combine" ->
            CombineLoop(w, [t EXCEPT !.found = @ \/ IsVerified(t.ret)])
      [] t.stage = "aiWait" ->
            IF t.lines = <<>> THEN Finished(w, t)
            ELSE AiAddressLoop(w, [t EXCEPT !.cands = t.lines])
      [] t.stage = "aiAddrs" ->
            IF IsVerified(t.ret) THEN Finished(w, [t EXCEPT !.found = TRUE])
            ELSE AiAddressLoop(w, t)
      [] t.stage = "pairs" -> PairLoop(w, t)
      [] t.stage = "pairAiWait" -> PairAiLoop(w, [t EXCEPT !.cands = t.lines])
      [] t.stage = "pairAi" -> PairAiLoop(w, t)

\* checkSequentialMessages up to its first await: lines 872-902
SequentialTask(w, message1, message2) ==
    PairLoop(w, NewTask("seq", "pairs", message1 \o <<" ">> \o message2,
                        NewestElement(w), SequentialCandidates(message1, message2)))

\* faulty variant: the pair check waits for a third message
checkSequentialMessages_NeedsThree(w) ==
    IF Len(w.buffer) < 3
    THEN Finished(w, NewTask("seq", "pairs", <<>>, 0, <<>>))
    ELSE SequentialTask(w, w.buffer[Len(w.buffer) - 1].text, w.buffer[Len(w.buffer)].text)

checkSequentialMessages(w) ==
    IF Len(w.buffer) < 2
    THEN Finished(w, NewTask("seq", "pairs", <<>>, 0, <<>>))
    ELSE SequentialTask(w, w.buffer[Len(w.buffer) - 1].text, w.buffer[Len(w.buffer)].text)

(***************************************************************************)
(* The window store.                                                       *)
(***************************************************************************)
\* faulty variant: no eviction by age
EvictOld_Never(buffer, time) == buffer

\* lines 1337-1341
EvictOld(buffer, time) ==
    SubSeq(buffer,
           Min({i \in 1..(Len(buffer) + 1) :
                   \/ i = Len(buffer) + 1
                   \/ ~(time - buffer[i].timestamp > BUFFER_TIME_WINDOW_MS)}),
           Len(buffer))

\* lines 1331-1334
CapBuffer(buffer) == IF Len(buffer) > MAX_BUFFER_SIZE THEN Tail(buffer) ELSE buffer

\* faulty variant: the message is put in front of the buffer
BufferInsert_Front(buffer, text, element, time) ==
    EvictOld(CapBuffer(<<[text |-> text, element |-> element, timestamp |-> time]>>
                           \o buffer), time)

\* addToMessageBuffer, lines 1324-1341: push, cap, evict the old head entries
BufferInsert(buffer, text, element, time) ==
    EvictOld(CapBuffer(Append(buffer,
                 [text |-> text, element |-> element, timestamp |-> time])), time)

\* faulty variant: the window is never cut
PopOverflow_Never(window) == window

\* line 960-962
PopOverflow(window) ==
    IF Len(window) > MAX_WINDOW_SIZE THEN SubSeq(window, 1, Len(window) - 1) ELSE window

\* lines 959-962: unshift, pop on overflow
WindowInsert(window, text, element, time) ==
    PopOverflow(<<[text |-> text, element |-> element, timestamp |-> time]>> \o window)

\* getMessageId: the DOM id of the element, or a generated one (element 0 has none)
getMessageId(element, nth) == IF element # 0 THEN element ELSE 1000 + nth

(***************************************************************************)
(* The pipeline: actions.                                                  *)
(***************************************************************************)
\* microtasks run before the next task of the event loop
NoMicrotask == \A k \in 1..Len(tasks) : tasks[k].pc # "ready"

Commit(w) ==
    /\ foundAddresses' = w.found
    /\ verificationResults' = w.results
    /\ bloomSentAddresses' = w.sent
    /\ aiPrompt' = w.prompt
    /\ buttons' = w.buttons
    /\ bloomRequests' = w.requests
    /\ providerCalls' = w.calls
    /\ RECENT_MESSAGES_BUFFER' = w.buffer

IsLive(t) == t.pc # "done"

\* the tasks with task k replaced by its successor (dropped when it has returned)
ReplaceTask(k, t) ==
    SubSeq(tasks, 1, k - 1) \o (IF IsLive(t) THEN <<t>> ELSE <<>>)
        \o SubSeq(tasks, k + 1, Len(tasks))

\* faulty variant: no extraction while a verification is in flight
MainTask_AfterVerification(sequential, cleanedText, element, messageId) ==
    IF messageId \in processedMessageIds \/ (\E k \in 1..Len(tasks) : tasks[k].pc = "verify")
    THEN Finished(sequential.w, NewTask("check", "matches", cleanedText, element, <<>>))
    ELSE MatchLoop(sequential.w,
                   NewTask("check", "matches", cleanedText, element,
                           MatchAll(cleanedText, solanaAddressRegex)))

\* lines 964-1003: the message id gate and the direct matches, after the
\* sequential check was started
MainTask(sequential, cleanedText, element, messageId) ==
    IF messageId \in processedMessageIds
    THEN Finished(sequential.w, NewTask("check", "matches", cleanedText, element, <<>>))
    ELSE MatchLoop(sequential.w,
                   NewTask("check", "matches", cleanedText, element,
                           MatchAll(cleanedText, solanaAddressRegex)))

Started(sequential, main, cleanedText, element, time, messageId) ==
    /\ Commit(main.w)
    /\ messageWindow' = WindowInsert(messageWindow, cleanedText, element, time)
    /\ processedMessageIds' = processedMessageIds \cup {messageId}
    /\ tasks' = tasks \o SelectSeq(<<sequential.t, main.t>>, IsLive)

StartMain(sequential, cleanedText, element, time, messageId) ==
    Started(sequential, MainTask(sequential, cleanedText, element, messageId),
            cleanedText, element, time, messageId)

\* lines 955-1003 for the cleaned text
Ingest(cleanedText, element, time) ==
    StartMain(checkSequentialMessages(
                  [World EXCEPT !.buffer =
                      BufferInsert(RECENT_MESSAGES_BUFFER, cleanedText, element, time)]),
              cleanedText, element, time, getMessageId(element, deliveries))

\* checkForSolanaAddresses(text, element) up to its first await, with
\* addToMessageBuffer and the start of checkSequentialMessages: lines 949-1003.
checkForSolanaAddresses(text, element, time) ==
    IF Len(text) < MinTextLen \/ cleanMessageText(text) = <<>>
    THEN UNCHANGED <<RECENT_MESSAGES_BUFFER, messageWindow, processedMessageIds,
                     foundAddresses, verificationResults, bloomSentAddresses,
                     aiPrompt, tasks, buttons, bloomRequests, providerCalls>>
    ELSE Ingest(cleanMessageText(text), element, time)

\* the mutation observer delivers a message element: one call of
\* checkForSolanaAddresses per callback of the observer, `delay` ms after the
\* previous one
Deliver(text, element, delay) ==
    /\ NoMicrotask
    /\ Len(tasks) + 2 <= MaxTasks
    /\ now' = now + delay
    /\ deliveries' = deliveries + 1
    /\ delivered' = Append(delivered, text)
    /\ checkForSolanaAddresses(text, element, now + delay)
    /\ UNCHANGED <<autoSendToBloom, bloomResponse, raceVars, storageVars, scannerVars>>

\* the race of fullTokenVerification settles and processAddress goes on
VerificationReturns(k, info) ==
    /\ NoMicrotask
    /\ tasks[k].pc = "verify"
    /\ Commit(processAddressEnd(World, tasks[k].addr, info))
    /\ tasks' = [tasks EXCEPT ![k].pc = "ready", ![k].ret = info]
    /\ UNCHANGED <<now, messageWindow, processedMessageIds, autoSendToBloom, deliveries,
                   delivered, bloomResponse, raceVars, storageVars, scannerVars>>

\* the reconstruction provider answers (an error or a timeout of the fetch: no lines)
AiReturns(k, answer) ==
    /\ NoMicrotask
    /\ tasks[k].pc = "ai"
    /\ tasks' = [tasks EXCEPT ![k].pc = "ready", ![k].lines = FilterAiLines(answer)]
    /\ UNCHANGED <<now, RECENT_MESSAGES_BUFFER, messageWindow, processedMessageIds,
                   foundAddresses, verificationResults, bloomSentAddresses,
                   autoSendToBloom, aiPrompt, buttons, bloomRequests, providerCalls,
                   deliveries, delivered, bloomResponse, raceVars, storageVars, scannerVars>>

Resumed(k, r) ==
    /\ Commit(r.w)
    /\ tasks' = ReplaceTask(k, r.t)

\* a queued continuation runs to its next await
Resume(k) ==
    /\ tasks[k].pc = "ready"
    /\ Resumed(k, ResumeTask(World, tasks[k]))
    /\ UNCHANGED <<now, messageWindow, processedMessageIds, autoSendToBloom, deliveries,
                   delivered, bloomResponse, raceVars, storageVars, scannerVars>>

\* a click on an enabled 'Send to Bloom' button: lines 534-538
ClickSendToBloom(address) ==
    /\ NoMicrotask
    /\ Get(buttons, address) > 0
    /\ Commit([sendToBloomBot(World, address)
                  EXCEPT !.buttons = Put(@, address, Get(@, address) - 1)])
    /\ UNCHANGED <<now, messageWindow, processedMessageIds, autoSendToBloom, tasks,
                   deliveries, delivered, bloomResponse, raceVars, storageVars, scannerVars>>

\* the auto-send checkbox changes: updateAutoSendState
SetAutoSend(enabled) ==
    /\ NoMicrotask
    /\ autoSendToBloom # enabled
    /\ autoSendToBloom' = enabled
    /\ UNCHANGED <<now, RECENT_MESSAGES_BUFFER, messageWindow, processedMessageIds,
                   foundAddresses, verificationResults, bloomSentAddresses, aiPrompt,
                   tasks, buttons, bloomRequests, providerCalls, deliveries, delivered,
                   bloomResponse, raceVars, storageVars, scannerVars>>

\* the answers received so far for the pasteToBloomTab messages of an address
Responses(address) ==
    IF address \in DOMAIN bloomResponse THEN bloomResponse[address] ELSE <<>>

\* clicks made so far on the 'Send to Bloom' buttons of an address: every display
\* adds a button and calls the providers once, every click consumes a button
Clicks(address) == Get(providerCalls, address) - Get(buttons, address)

\* faulty variant: a failure reported by the background script reopens the gate
BloomResponds_Retry(address, success) ==
    /\ NoMicrotask
    /\ Len(Responses(address)) < Get(bloomRequests, address)
    /\ bloomResponse' =
          Put(bloomResponse, address,
              Append(Responses(address),
                     [success |-> success, clicks |-> Clicks(address)]))
    /\ bloomSentAddresses' =
          IF success THEN bloomSentAddresses ELSE bloomSentAddresses \ {address}
    /\ UNCHANGED <<now, RECENT_MESSAGES_BUFFER, messageWindow, processedMessageIds,
                   foundAddresses, verificationResults, autoSendToBloom, aiPrompt,
                   tasks, buttons, bloomRequests, providerCalls, deliveries, delivered,
                   raceVars, storageVars, scannerVars>>

\* the background script answers a pasteToBloomTab message (part_000: success
\* true or false), or the channel closes without an answer reaching the callback
\* (success false): the callback of lines 471-477 logs the outcome
BloomResponds(address, success) ==
    /\ NoMicrotask
    /\ Len(Responses(address)) < Get(bloomRequests, address)
    /\ bloomResponse' =
          Put(bloomResponse, address,
              Append(Responses(address),
                     [success |-> success, clicks |-> Clicks(address)]))
    /\ UNCHANGED <<now, RECENT_MESSAGES_BUFFER, messageWindow, processedMessageIds,
                   foundAddresses, verificationResults, bloomSentAddresses,
                   autoSendToBloom, aiPrompt, tasks, buttons, bloomRequests,
                   providerCalls, deliveries, delivered, raceVars, storageVars, scannerVars>>

PipelineInit ==
    /\ now = 0
    /\ RECENT_MESSAGES_BUFFER = <<>>
    /\ messageWindow = <<>>
    /\ processedMessageIds = {}
    /\ foundAddresses = {}
    /\ verificationResults = EmptyMap
    /\ bloomSentAddresses = {}
    /\ autoSendToBloom = FALSE
    /\ aiPrompt = <<>>
    /\ tasks = <<>>
    /\ buttons = EmptyMap
    /\ bloomRequests = EmptyMap
    /\ providerCalls = EmptyMap
    /\ deliveries = 0
    /\ delivered = <<>>
    /\ bloomResponse = EmptyMap

vars == <<pipeVars, raceVars, storageVars, scannerVars>>

\* no call of fullTokenVerification is followed provider by provider
RaceIdle ==
    /\ vAddress = Null
    /\ vPc = "idle"
    /\ vResult = NullResult
    /\ provider = <<>>
    /\ wrapper = <<>>
    /\ timer = <<>>
    /\ elapsed = 0
    /\ returnedAt = 0

\* nothing is stored and no call of processAddress is suspended
StorageIdle ==
    /\ storedAddresses = <<>>
    /\ storageQueue = <<>>
    /\ storageReplies = <<>>
    /\ awaiting = <<>>

\* the scanner was started: one observer observes the chat container
ScannerStarted ==
    /\ isScanning = TRUE
    /\ observer = 1
    /\ attached = {1}
    /\ observersMade = 1
    /\ ignoredCallbacks = 0

Init == PipelineInit /\ RaceIdle /\ StorageIdle /\ ScannerStarted

Next ==
    \/ /\ deliveries < MaxDeliveries
       /\ \E text \in Texts, element \in Elements, delay \in Delays :
              Deliver(text, element, delay)
    \/ \E k \in 1..Len(tasks), info \in Outcomes : VerificationReturns(k, info)
    \/ \E k \in 1..Len(tasks), answer \in AiAnswers : AiReturns(k, answer)
    \/ \E k \in 1..Len(tasks) : Resume(k)
    \/ \E address \in DOMAIN buttons : ClickSendToBloom(address)
    \/ \E enabled \in BOOLEAN : SetAutoSend(enabled)

\* the detection pipeline: deliveries, verification and AI results, microtasks,
\* clicks and the auto-send switch
Spec == Init /\ [][Next]_vars

(***************************************************************************)
(* The window store alone: a stream of messages that carry no address.     *)
(***************************************************************************)
\* messages delivered in one run of the store
MaxStoreDeliveries == 22
\* the clock stops advancing here
MaxClock == 20002

NoiseText == <<"h", "e", "l", "l", "o">>
StoreTexts == {NoiseText}
StoreDelays == {0, BUFFER_TIME_WINDOW_MS, BUFFER_TIME_WINDOW_MS + 1}

\* every message is a new element, with the next id
StoreDeliver ==
    /\ deliveries < MaxStoreDeliveries
    /\ \E text \in StoreTexts, delay \in StoreDelays :
          /\ now + delay <= MaxClock
          /\ Deliver(text, deliveries + 1, delay)

StoreNext ==
    \/ StoreDeliver
    \/ \E k \in 1..Len(tasks) : Resume(k)

SpecStore == Init /\ [][StoreNext]_vars

(***************************************************************************)
(* One call of fullTokenVerification, provider by provider.                *)
(***************************************************************************)
\* the platform names of verifyJupiterToken, verifyBirdeyeToken, verifyRegistryToken
Providers == {"Jupiter", "Birdeye", "Jupiter Registry"}

\* the timeouts of lines 399, 402, 405
TimeoutOf(p) ==
    IF p = "Jupiter" THEN JupiterTimeoutMs
    ELSE IF p = "Birdeye" THEN BirdeyeTimeoutMs
    ELSE RegistryTimeoutMs

\* the clock of the race stops advancing here
MaxElapsed == 9000
TickSteps == {1000, 4000}

\* the arguments of the call: a valid address, the empty string, one character
\* short, one character long, a character outside the alphabet, the shortest and
\* the longest address, and the letters the alphabet leaves out
VerifyInputs ==
    {TestAddress, <<>>, Rep("A", MinAddressLen - 1), Rep("A", MaxAddressLen + 1),
     Rep("A", MinAddressLen) \o <<"0">>, Rep("A", MinAddressLen),
     Rep("A", MaxAddressLen)}
        \cup {Rep("A", MinAddressLen - 1) \o <<c>> : c \in {"O", "I", "l"}}

\* the return of fullTokenVerification
Return(result) ==
    /\ vPc' = "returned"
    /\ vResult' = result
    /\ returnedAt' = elapsed

\* faulty variant: the provider is called without a timer
verifyWithTimeout_NoTimer(p) ==
    [provider |-> "pending", timer |-> "none", wrapper |-> "pending"]

\* verifyWithTimeout, lines 266-273: the timer is armed, the provider is called
verifyWithTimeout(p) == [provider |-> "pending", timer |-> "armed", wrapper |-> "pending"]

StartOf(p) == verifyWithTimeout(p)

\* verifyTokenWithMultipleAPIs up to `await Promise.any`: lines 393-411
StartRace ==
    /\ provider' = [p \in Providers |-> StartOf(p).provider]
    /\ timer' = [p \in Providers |-> StartOf(p).timer]
    /\ wrapper' = [p \in Providers |-> StartOf(p).wrapper]
    /\ vPc' = "racing"
    /\ UNCHANGED <<vResult, returnedAt>>

\* fullTokenVerification(address), lines 427-437, up to its first await
CallWith(rej) ==
    IF rej # ""
    THEN /\ Return(Unverified(rej))
         /\ UNCHANGED <<provider, timer, wrapper>>
    ELSE StartRace

CallVerify ==
    /\ vPc = "start"
    /\ CallWith(FormatRejection(vAddress))
    /\ UNCHANGED <<vAddress, elapsed, pipeVars, storageVars, scannerVars>>

\* Promise.any over the three wrappers
AnyFulfilled(w) == \E p \in Providers : w[p] = "fulfilled"
AllRejected(w) == \A p \in Providers : w[p] = "rejected"

\* faulty variant: the race waits until every wrapper is settled
AfterSettle_WaitAll(w, p) ==
    IF vPc # "racing" \/ (\E q \in Providers : w[q] = "pending")
    THEN UNCHANGED <<vPc, vResult, returnedAt>>
    ELSE IF AnyFulfilled(w)
    THEN Return(VerifiedBy(CHOOSE q \in Providers : w[q] = "fulfilled"))
    ELSE Return(AllFailed)

\* faulty variant: the AggregateError of Promise.any is not caught
AfterSettle_NoCatch(w, p) ==
    IF vPc # "racing" THEN UNCHANGED <<vPc, vResult, returnedAt>>
    ELSE IF w[p] = "fulfilled" THEN Return(VerifiedBy(p))
    ELSE IF AllRejected(w) THEN vPc' = "threw" /\ UNCHANGED <<vResult, returnedAt>>
    ELSE UNCHANGED <<vPc, vResult, returnedAt>>

\* lines 408-420 after wrapper p was settled: the first fulfilment is returned,
\* the AggregateError of Promise.any is caught
AfterSettle(w, p) ==
    IF vPc # "racing" THEN UNCHANGED <<vPc, vResult, returnedAt>>
    ELSE IF w[p] = "fulfilled" THEN Return(VerifiedBy(p))
    ELSE IF AllRejected(w) THEN Return(AllFailed)
    ELSE UNCHANGED <<vPc, vResult, returnedAt>>

\* resolve and reject settle a promise only once
SettleWrapper(state, outcome) == IF state = "pending" THEN outcome ELSE state

\* clearTimeout, lines 276 and 284
clearTimeout(state) == IF state = "armed" THEN "cleared" ELSE state

Settled(w, p) ==
    /\ wrapper' = w
    /\ AfterSettle(w, p)

\* the provider function of p returns: lines 273-282.  It catches its own errors
\* (lines 324, 352, 384), so a failed fetch is also a result with verified false.
ProviderAnswers(p, verified) ==
    /\ vPc \in {"racing", "returned"}
    /\ provider[p] = "pending"
    /\ provider' = [provider EXCEPT ![p] = IF verified THEN "true" ELSE "false"]
    /\ timer' = [timer EXCEPT ![p] = clearTimeout(@)]
    /\ Settled([wrapper EXCEPT ![p] =
                    SettleWrapper(@, IF verified THEN "fulfilled" ELSE "rejected")], p)
    /\ UNCHANGED <<vAddress, elapsed, pipeVars, storageVars, scannerVars>>

\* the timer of p fires: lines 268-270
TimerFires(p) ==
    /\ vPc \in {"racing", "returned"}
    /\ timer[p] = "armed"
    /\ elapsed >= TimeoutOf(p)
    /\ timer' = [timer EXCEPT ![p] = "fired"]
    /\ Settled([wrapper EXCEPT ![p] = SettleWrapper(@, "rejected")], p)
    /\ UNCHANGED <<vAddress, provider, elapsed, pipeVars, storageVars, scannerVars>>

\* time passes; a timer that is due fires before time passes further
Tick(d) ==
    /\ vPc \in {"racing", "returned"}
    /\ elapsed + d <= MaxElapsed
    /\ \A p \in Providers : ~(timer[p] = "armed" /\ elapsed >= TimeoutOf(p))
    /\ elapsed' = elapsed + d
    /\ UNCHANGED <<vAddress, vPc, vResult, provider, wrapper, timer, returnedAt, pipeVars, storageVars, scannerVars>>

RaceInit ==
    /\ vAddress \in VerifyInputs
    /\ vPc = "start"
    /\ vResult = NullResult
    /\ provider = [p \in Providers |-> "idle"]
    /\ wrapper = [p \in Providers |-> "none"]
    /\ timer = [p \in Providers |-> "none"]
    /\ elapsed = 0
    /\ returnedAt = 0

RaceNext ==
    \/ CallVerify
    \/ \E p \in Providers, verified \in BOOLEAN : ProviderAnswers(p, verified)
    \/ \E p \in Providers : TimerFires(p)
    \/ \E d \in TickSteps : Tick(d)

InitVerify == PipelineInit /\ RaceInit /\ StorageIdle /\ ScannerStarted

SpecVerify == InitVerify /\ [][RaceNext]_vars

\* timers fire and time passes: the event loop runs a due timer callback, the
\* providers may stay silent for ever
SpecVerifyFair ==
    /\ SpecVerify
    /\ WF_vars(CallVerify)
    /\ WF_vars(\E d \in TickSteps : Tick(d))
    /\ \A p \in Providers : WF_vars(TimerFires(p))

(***************************************************************************)
(* Properties of the pipeline, checked under Spec.                         *)
(***************************************************************************)
ProcessAddressStages == {"matches", "combine", "aiAddrs", "pairs", "pairAi"}

\* C1: for every address and every interleaving of deliveries, detections, clicks
\* on 'Send to Bloom' and auto-forwards, the pasteToBloomTab message is sent at most
\* once per address.
C1_ForwardAtMostOnce ==
    \A a \in DOMAIN bloomRequests : bloomRequests[a] <= 1

\* Every display of a valid address calls the providers once and adds one button,
\* and a click consumes a button: providerCalls[a] - buttons[a] is the number of
\* clicks for a.  Here sendToBloomBot(a) ran at least twice and one message was sent.
C1_Witness ==
    \E a \in DOMAIN bloomRequests :
        /\ bloomRequests[a] = 1
        /\ a \in bloomSentAddresses
        /\ Get(providerCalls, a) - Get(buttons, a) >= 2

\* a step in which the pipeline itself, not a click, sends the message for address a
AutoForwarded(a) ==
    /\ Get(bloomRequests', a) > Get(bloomRequests, a)
    /\ Get(buttons', a) >= Get(buttons, a)

\* C2: the pipeline forwards an address by itself only if its verification result
\* has verified = true, auto-forward is enabled and the dispatch gate was not yet
\* flipped for it; an address with verified = false is never forwarded by the pipeline.
C2_AutoForwardOnlyVerified ==
    [][\A a \in DOMAIN bloomRequests' :
          AutoForwarded(a) =>
              /\ a \in DOMAIN verificationResults'
              /\ IsVerified(verificationResults'[a])
              /\ autoSendToBloom = TRUE
              /\ a \notin bloomSentAddresses]_vars

\* C3: at every moment at most one call of fullTokenVerification is in flight for
\* any given address.
C3_OneVerificationInFlight ==
    \A j, k \in 1..Len(tasks) :
        (j # k /\ tasks[j].pc = "verify" /\ tasks[k].pc = "verify")
            => tasks[j].addr # tasks[k].addr

\* a call of processAddress for a has just returned to task t
ReturnedFor(t, a) ==
    /\ t.pc = "ready"
    /\ t.stage \in ProcessAddressStages
    /\ t.addr = a

\* C4: once a result is stored for an address, the result stays stored, no step
\* calls the providers for that address again, and every call of processAddress for
\* it returns the stored result.
C4_StoredResultReused ==
    /\ [](\A k \in 1..Len(tasks) :
             tasks[k].addr # Null /\ ReturnedFor(tasks[k], tasks[k].addr)
                 => /\ tasks[k].addr \in DOMAIN verificationResults
                    /\ tasks[k].ret = verificationResults[tasks[k].addr])
    /\ [][\A a \in DOMAIN verificationResults :
             /\ a \in DOMAIN verificationResults'
             /\ Get(providerCalls', a) = Get(providerCalls, a)]_vars

\* two messages with distinct ids carried the address and the providers were
\* called once: the second detection found the stored unverified result and
\* returned it
C4_Witness ==
    \E k \in 1..Len(tasks) :
        /\ tasks[k].kind = "check"
        /\ tasks[k].stage = "matches"
        /\ tasks[k].addr # Null
        /\ ReturnedFor(tasks[k], tasks[k].addr)
        /\ Get(providerCalls, tasks[k].addr) = 1
        /\ Cardinality(processedMessageIds) = 2
        /\ tasks[k].ret = AllFailed

(***************************************************************************)
(* Properties of the verification race, checked under SpecVerify and, for  *)
(* termination, under SpecVerifyFair.                                      *)
(***************************************************************************)
\* the malformed inputs: empty, too short, too long, a character outside the alphabet
BadLength(address) == Len(address) < MinAddressLen \/ Len(address) > MaxAddressLen
BadCharacter(address) == \E i \in 1..Len(address) : address[i] \notin Base58
Malformed(address) == BadLength(address) \/ BadCharacter(address)

\* C5: as soon as a provider resolves with verified = true before its own timer
\* fired, the call returns that provider's result at that moment; once the call
\* has returned, nothing that arrives later changes the result.
C5_FirstVerifiedWins ==
    [][/\ \A p \in Providers :
             (/\ vPc = "racing"
              /\ provider[p] = "pending"
              /\ timer[p] = "armed"
              /\ provider'[p] = "true")
                 => /\ vPc' = "returned"
                    /\ vResult' = VerifiedBy(p)
                    /\ returnedAt' = elapsed
       /\ vPc = "returned" =>
             /\ vPc' = "returned"
             /\ vResult' = vResult
             /\ returnedAt' = returnedAt]_vars

\* a provider won after one second, before any timeout, and another provider
\* resolved with verified = true later: the returned result is still the winner's
C5_Witness ==
    /\ vPc = "returned"
    /\ IsVerified(vResult)
    /\ returnedAt < RegistryTimeoutMs
    /\ returnedAt > 0
    /\ \E q \in Providers : q # vResult.platform /\ provider[q] = "true"
    /\ \E q \in Providers : provider[q] = "pending"

\* C6 as the specification words it: when every provider loses, the call returns
\* verified = false with the reason "no provider confirmed"; verified = false is
\* returned only then or for malformed input; no exception leaves the call.
C6_NoProviderConfirmed ==
    /\ vPc # "threw"
    /\ vPc = "returned" =>
          /\ AllRejected(wrapper) => vResult = Unverified("no provider confirmed")
          /\ ~IsVerified(vResult) => (AllRejected(wrapper) \/ Malformed(vAddress))

\* C6, amended: the same with the reason the code returns,
\* "Failed verification with all APIs".
C6_AllProvidersLose ==
    /\ vPc # "threw"
    /\ vPc = "returned" =>
          /\ AllRejected(wrapper) =>
                vResult = Unverified("Failed verification with all APIs")
          /\ ~IsVerified(vResult) => (AllRejected(wrapper) \/ Malformed(vAddress))

\* one provider timed out, another answered verified = false, none confirmed
C6_Witness ==
    /\ vPc = "returned"
    /\ AllRejected(wrapper)
    /\ \E p \in Providers : timer[p] = "fired"
    /\ \E p \in Providers : provider[p] = "false"
    /\ vResult.verified = FALSE

\* C7 as the specification words it: a malformed address returns verified = false
\* with the reason "invalid format" and no provider is called.
C7_InvalidFormat ==
    (vPc # "start" /\ Malformed(vAddress)) =>
        /\ vPc = "returned"
        /\ vResult = Unverified("invalid format")
        /\ \A p \in Providers : provider[p] = "idle"

\* C7, amended: the reason is "Invalid address format" for an empty, too short or
\* too long address and "Invalid address characters" for a character outside the
\* alphabet; no provider is called.
C7_MalformedFailsFast ==
    (vPc # "start" /\ Malformed(vAddress)) =>
        /\ vPc = "returned"
        /\ vResult = Unverified(IF BadLength(vAddress) THEN "Invalid address format"
                                ELSE "Invalid address characters")
        /\ \A p \in Providers : provider[p] = "idle" /\ timer[p] = "none"

\* an address of valid length with a character outside the alphabet was rejected
C7_Witness ==
    /\ vPc = "returned"
    /\ ~BadLength(vAddress)
    /\ BadCharacter(vAddress)
    /\ vResult.verified = FALSE
    /\ \A p \in Providers : provider[p] = "idle"

AllTimersFired == \A p \in Providers : timer[p] = "fired"

\* C8: every call eventually returns, whatever the providers do; once all three
\* timers have fired the call has returned verified = false.
C8_VerifyTerminates ==
    /\ <>(vPc = "returned")
    /\ [](vPc \in {"racing", "returned"} /\ AllTimersFired
             => vPc = "returned" /\ vResult = AllFailed)

\* no provider ever answered; the call returned when the last timer fired
C8_Witness ==
    /\ vPc = "returned"
    /\ AllTimersFired
    /\ \A p \in Providers : provider[p] = "pending"
    /\ returnedAt = JupiterTimeoutMs
    /\ vResult.verified = FALSE

(***************************************************************************)
(* Properties of the window store, checked under SpecStore, where message  *)
(* number n is element n and every message is ingested.                    *)
(***************************************************************************)
\* C9: the window holds at most MAX_WINDOW_SIZE messages, newest first, and they
\* are exactly the most recent ones: all of them up to MAX_WINDOW_SIZE ingestions,
\* the last MAX_WINDOW_SIZE after more.
C9_WindowHoldsNewest ==
    /\ Len(messageWindow) <= MAX_WINDOW_SIZE
    /\ Len(messageWindow) = Min({deliveries, MAX_WINDOW_SIZE})
    /\ \A i \in 1..Len(messageWindow) : messageWindow[i].element = deliveries - i + 1

\* more messages than the window holds were ingested
C9_Witness ==
    /\ deliveries > MAX_WINDOW_SIZE + 1
    /\ Len(messageWindow) = MAX_WINDOW_SIZE
    /\ messageWindow[MAX_WINDOW_SIZE].element = deliveries - MAX_WINDOW_SIZE + 1

\* what an insertion drops from the buffer: the head on overflow, entries older
\* than the time window
DroppedRightly(full, kept, time) ==
    /\ Len(kept) <= Len(full)
    /\ kept = SubSeq(full, Len(full) - Len(kept) + 1, Len(full))
    /\ \A i \in 1..(Len(full) - Len(kept)) :
          \/ i = 1 /\ Len(full) > MAX_BUFFER_SIZE
          \/ time - full[i].timestamp > BUFFER_TIME_WINDOW_MS

\* C10: after every insertion the buffer holds at most MAX_BUFFER_SIZE entries,
\* they are the most recent messages in arrival order, none is older than
\* BUFFER_TIME_WINDOW_MS at that insertion, and an insertion drops only the head
\* on overflow and entries older than the time window.
C10_BufferFreshAndBounded ==
    /\ [](/\ Len(RECENT_MESSAGES_BUFFER) <= MAX_BUFFER_SIZE
          /\ \A i \in 1..Len(RECENT_MESSAGES_BUFFER) :
                /\ now - RECENT_MESSAGES_BUFFER[i].timestamp <= BUFFER_TIME_WINDOW_MS
                /\ RECENT_MESSAGES_BUFFER[i].element
                       = deliveries - Len(RECENT_MESSAGES_BUFFER) + i)
    /\ [][deliveries' # deliveries =>
             DroppedRightly(
                 Append(RECENT_MESSAGES_BUFFER, RECENT_MESSAGES_BUFFER'[Len(RECENT_MESSAGES_BUFFER')]),
                 RECENT_MESSAGES_BUFFER', now')]_vars

\* the buffer is full after an overflow and its oldest entry is exactly
\* BUFFER_TIME_WINDOW_MS old
C10_Witness ==
    /\ deliveries > MAX_BUFFER_SIZE
    /\ Len(RECENT_MESSAGES_BUFFER) = MAX_BUFFER_SIZE
    /\ now - RECENT_MESSAGES_BUFFER[1].timestamp = BUFFER_TIME_WINDOW_MS

(***************************************************************************)
(* Further properties of the pipeline, checked under Spec.                 *)
(***************************************************************************)
\* C11: the registry only grows: no step removes an address from foundAddresses,
\* deletes a stored verification result, or takes an address out of
\* bloomSentAddresses (so the dispatched flag goes from false to true at most once).
C11_RegistryMonotonic ==
    [][/\ foundAddresses \subseteq foundAddresses'
       /\ \A a \in DOMAIN verificationResults : a \in DOMAIN verificationResults'
       /\ bloomSentAddresses \subseteq bloomSentAddresses']_vars

\* an address was admitted, its result stored and its flag flipped, and a second
\* message, every click and every continuation ran after that
C11_Witness ==
    \E a \in foundAddresses :
        /\ a \in DOMAIN verificationResults
        /\ a \in bloomSentAddresses
        /\ deliveries >= 2
        /\ Get(buttons, a) = 0
        /\ tasks = <<>>

\* a step that delivers, and ingests, an element whose message id was processed before
DuplicateDelivery ==
    /\ deliveries' # deliveries
    /\ messageWindow' # messageWindow
    /\ getMessageId(messageWindow'[1].element, deliveries) \in processedMessageIds

\* C13: the second delivery of a message whose id was already processed starts no
\* verification, no request to the reconstruction provider and admits no candidate.
C13_DuplicateDoesNothing ==
    [][DuplicateDelivery =>
          /\ providerCalls' = providerCalls
          /\ foundAddresses' = foundAddresses
          /\ \A k \in 1..Len(tasks') :
                k > Len(tasks) => tasks'[k].pc \notin {"verify", "ai"}]_vars

\* C16: a request to the reconstruction provider is pending only for a trigger
\* whose deterministic candidates did not verify and whose text shows a trigger
\* signal, on the message path and on the sequential-pair path.
C16_AiOnlyOnSignal ==
    \A k \in 1..Len(tasks) :
        tasks[k].pc = "ai" =>
            /\ ~tasks[k].found
            /\ ~IsVerified(tasks[k].ret)
            /\ HasTriggerSignal(tasks[k].text)

(***************************************************************************)
(* The forward and its answer: the pipeline for messages without a DOM id, *)
(* with the answers of the background script.                              *)
(***************************************************************************)
DispatchNext ==
    \/ /\ deliveries < MaxDeliveries
       /\ \E text \in Texts, delay \in Delays : Deliver(text, 0, delay)
    \/ \E k \in 1..Len(tasks), info \in Outcomes : VerificationReturns(k, info)
    \/ \E k \in 1..Len(tasks) : AiReturns(k, <<>>)
    \/ \E k \in 1..Len(tasks) : Resume(k)
    \/ \E address \in DOMAIN buttons : ClickSendToBloom(address)
    \/ \E enabled \in BOOLEAN : SetAutoSend(enabled)
    \/ \E address \in DOMAIN bloomRequests, success \in BOOLEAN :
           BloomResponds(address, success)

SpecDispatch == Init /\ [][DispatchNext]_vars

\* the background script reported a failure for the address
ForwardFailed(a) == \E i \in 1..Len(Responses(a)) : ~Responses(a)[i].success

\* C12: when the forward of an address has failed, or has not been answered, the
\* gate of the address stays flipped and no second pasteToBloomTab message is sent
\* for it, whatever is detected or clicked later.
C12_FailureNotRetried ==
    \A a \in DOMAIN bloomRequests :
        (bloomRequests[a] >= 1 /\ (Responses(a) = <<>> \/ ForwardFailed(a)))
            => a \in bloomSentAddresses /\ bloomRequests[a] = 1

\* the forward failed and a 'Send to Bloom' button of the address was clicked
\* after the failure was reported: still one message
C12_Witness ==
    \E a \in DOMAIN bloomRequests :
        /\ bloomRequests[a] = 1
        /\ \E i \in 1..Len(Responses(a)) :
              ~Responses(a)[i].success /\ Clicks(a) > Responses(a)[i].clicks

(***************************************************************************)
(* The reconstruction fallback of checkForSolanaAddresses: messages that   *)
(* show a trigger signal and hold no address, each delivered after the     *)
(* buffer has forgotten the one before, so that no pair check runs.        *)
(***************************************************************************)
\* an alphabet run of 20 characters
AiText == Rep("7", 20)

AiNext ==
    \/ /\ deliveries < MaxDeliveries
       /\ Deliver(AiText, 0, BUFFER_TIME_WINDOW_MS + 1)
    \/ \E k \in 1..Len(tasks), info \in Outcomes : VerificationReturns(k, info)
    \/ \E k \in 1..Len(tasks), answer \in AiAnswers : AiReturns(k, answer)
    \/ \E k \in 1..Len(tasks) : Resume(k)

SpecAi == Init /\ [][AiNext]_vars

\* every verification returns (its timers fire) and the event loop runs every
\* queued continuation, so that again and again none is waiting; nothing makes
\* the reconstruction provider answer
SpecAiFair ==
    /\ SpecAi
    /\ WF_vars(\E k \in 1..Len(tasks), info \in Outcomes : VerificationReturns(k, info))
    /\ []<>NoMicrotask

\* the fallback of task t has to stop: a reconstructed candidate verified, or the
\* provider returned no usable candidate
StopPending(t) ==
    /\ t.kind = "check"
    /\ t.pc = "ready"
    /\ \/ t.stage = "aiAddrs" /\ IsVerified(t.ret)
       \/ t.stage = "aiWait" /\ t.lines = <<>>

\* C14: for one triggering message checkForSolanaAddresses sends at most 3 requests
\* to the reconstruction provider, and when a reconstructed candidate verified or
\* the provider returned no usable candidate the coroutine ends without another
\* request or verification.
C14_AtMostThreeAttempts ==
    /\ [](\A k \in 1..Len(tasks) : tasks[k].kind = "check" => tasks[k].aiCalls <= 3)
    /\ [][\A k \in 1..Len(tasks) :
             StopPending(tasks[k]) =>
                 /\ tasks' = SubSeq(tasks, 1, k - 1) \o SubSeq(tasks, k + 1, Len(tasks))
                 /\ providerCalls' = providerCalls]_vars

\* the third request of a message is pending
C14_Witness ==
    \E k \in 1..Len(tasks) :
        /\ tasks[k].kind = "check"
        /\ tasks[k].pc = "ai"
        /\ tasks[k].aiCalls = 3

\* C15: the first request a triggering message sends to the reconstruction provider
\* carries the base prompt, whatever escalations earlier messages caused.
C15_FirstAttemptUsesBasePrompt ==
    \A k \in 1..Len(tasks) :
        (tasks[k].kind = "check" /\ tasks[k].pc = "ai" /\ tasks[k].aiCalls = 1)
            => tasks[k].prompt = BasePrompt

\* C17: the pipeline of every triggering message eventually ends, even when the
\* reconstruction provider never answers.
C17_PipelineReachesDone ==
    (tasks # <<>>) ~> (tasks = <<>>)

(***************************************************************************)
(* A message and the message before it: short texts that form an address   *)
(* only when they are put together.                                        *)
(***************************************************************************)
\* a prefix shorter than the shortest text checkForSolanaAddresses accepts
ShortPrefix == <<"a", "b", "c">>
\* 41 characters of the alphabet
LongBody == Rep("7", MaxAddressLen - 3)
\* two fragments, neither an address, 40 characters together
PrevFragment == Rep("7", 10)
CurFragment == Rep("x", 30)
\* a message with two fragments
TwoFragments == Rep("7", 22) \o <<" ">> \o Rep("x", 12)

PairNext ==
    \/ /\ deliveries < MaxDeliveries
       /\ \E text \in {ShortPrefix, LongBody, LongBody \o <<"7">>, PrevFragment, CurFragment,
                        TwoFragments} :
              Deliver(text, 0, 0)
    \/ \E k \in 1..Len(tasks), info \in Outcomes : VerificationReturns(k, info)
    \/ \E k \in 1..Len(tasks) : AiReturns(k, <<>>)
    \/ \E k \in 1..Len(tasks) : Resume(k)

SpecPair == Init /\ [][PairNext]_vars

\* the two messages delivered last
PreviousMessage == delivered[Len(delivered) - 1]
CurrentMessage == delivered[Len(delivered)]
\* the case of lines 801-804: a short previous message and the current message
\* are an address when concatenated
DirectCombination ==
    /\ Len(delivered) >= 2
    /\ Len(PreviousMessage) < 20
    /\ Len(CurrentMessage) < 40
    /\ IsAddressShape(PreviousMessage \o CurrentMessage)

\* C18: when the previous message (shorter than 20) and the current message
\* (shorter than 40) concatenated are a valid address, no request of this trigger
\* goes to the reconstruction provider, neither from checkForSolanaAddresses nor
\* from the sequential pair check.
C18_DirectCombinationSkipsAi ==
    DirectCombination =>
        \A k \in 1..Len(tasks) :
            tasks[k].text \in {CurrentMessage,
                               PreviousMessage \o <<" ">> \o CurrentMessage}
                => tasks[k].pc # "ai"

\* C19: after "abc" and a message of 41 alphabet characters the pipeline has
\* processed the 44 characters of both as a candidate when it is done; a
\* concatenation of 45 characters is never a candidate.
C19_PrefixCombination ==
    /\ ( /\ Len(delivered) >= 2
         /\ PreviousMessage = ShortPrefix
         /\ CurrentMessage = LongBody
         /\ tasks = <<>> )
           => (ShortPrefix \o LongBody) \in foundAddresses
    /\ ( /\ Len(delivered) >= 2
         /\ Len(PreviousMessage \o CurrentMessage) = MaxAddressLen + 1 )
           => (PreviousMessage \o CurrentMessage) \notin foundAddresses

(***************************************************************************)
(* The format gate of fullTokenVerification, checked under SpecVerify.     *)
(***************************************************************************)
\* the call went past the format gate: the providers were started
Accepted == \E p \in Providers : provider[p] # "idle"

\* C20: fullTokenVerification lets a string through to the providers exactly when
\* it has 32 to 44 characters, all of them digits or letters other than 0, O, I
\* and l.
C20_AcceptsExactlyAddresses ==
    vPc # "start" =>
        (Accepted <=>
            /\ 32 <= Len(vAddress)
            /\ Len(vAddress) <= 44
            /\ \A i \in 1..Len(vAddress) :
                   /\ vAddress[i] \in Digits \cup UpperCase \cup LowerCase
                   /\ vAddress[i] \notin {"0", "O", "I", "l"})

\* 32 characters with an l among them were rejected before any provider was called
C20_Witness ==
    /\ vPc = "returned"
    /\ Len(vAddress) = 32
    /\ \E i \in 1..Len(vAddress) : vAddress[i] = "l"
    /\ ~Accepted

(***************************************************************************)
(* The candidates of the reconstruction loop for a message that holds the  *)
(* word pump: line 1039 appends "pump" to what the provider returned.      *)
(***************************************************************************)
\* a fragment of 20 characters and the word pump
PumpText == Rep("7", 20) \o <<" ">> \o LitPump

AdmitNext ==
    \/ /\ deliveries < MaxDeliveries
       /\ Deliver(PumpText, 0, BUFFER_TIME_WINDOW_MS + 1)
    \/ \E k \in 1..Len(tasks), info \in Outcomes : VerificationReturns(k, info)
    \/ \E k \in 1..Len(tasks), answer \in {<<>>, <<TestAddress>>, <<LongBody>>} :
           AiReturns(k, answer)
    \/ \E k \in 1..Len(tasks) : Resume(k)

SpecAdmit == Init /\ [][AdmitNext]_vars

\* the runs of 32 to 44 alphabet characters of s, by their first position
AddressRuns(s) ==
    {i \in 1..Len(s) : /\ At(s, i - 1) \notin Base58
                       /\ RunLen(s, i, Base58) >= 32
                       /\ RunLen(s, i, Base58) <= 44}

\* the candidate, without its framing, holds exactly one run of 32 to 44
\* alphabet characters
ReducesToAddress(candidate) == Cardinality(AddressRuns(StripFraming(candidate))) = 1

\* C21: processAddress creates an entry only for a candidate that reduces to
\* exactly one run of 32 to 44 alphabet characters; for any other candidate it
\* returns null and the call is about no address.
C21_AdmitOnlyWholeAddress ==
    \A k \in 1..Len(tasks) :
        tasks[k].cand # Null =>
            IF ReducesToAddress(tasks[k].cand)
            THEN tasks[k].addr \in foundAddresses
            ELSE tasks[k].addr = Null /\ tasks[k].ret = NullResult

(***************************************************************************)
(* The registry across concurrent calls of processAddress, checked under   *)
(* Spec.                                                                   *)
(***************************************************************************)
\* C22: once verificationResults holds a result for an address no step replaces
\* it with a different result.
C22_StoredResultImmutable ==
    [][\A a \in DOMAIN verificationResults :
           /\ a \in DOMAIN verificationResults'
           /\ verificationResults'[a] = verificationResults[a]]_vars

\* the entry of address a: its verification, if any, and its dispatch flag
EntryOf(found, results, sent, a) ==
    [known |-> a \in found,
     verification |-> IF a \in DOMAIN results THEN results[a] ELSE NullResult,
     dispatched |-> a \in sent]

\* C23: a call of processAddress that gets past line 720 for an address that is
\* already in foundAddresses (it shows one more badge for it) leaves the entry of
\* that address as it was: no second entry, the same verification, the same
\* dispatch flag, whether or not the first call's verification has completed.
C23_SecondAdmissionSameEntry ==
    [][\A a \in foundAddresses :
           Get(buttons', a) > Get(buttons, a) =>
               EntryOf(foundAddresses', verificationResults', bloomSentAddresses', a)
                   = EntryOf(foundAddresses, verificationResults, bloomSentAddresses, a)]_vars

\* two calls for one address are waiting for their verification, and the address
\* was forwarded by a click meanwhile
C23_Witness ==
    \E j, k \in 1..Len(tasks) :
        /\ j < k
        /\ tasks[j].pc = "verify"
        /\ tasks[k].pc = "verify"
        /\ tasks[j].addr = tasks[k].addr
        /\ tasks[j].addr \in bloomSentAddresses
        /\ Cardinality(foundAddresses) = 1

(***************************************************************************)
(* The order of the two stores, checked under SpecStore (message n is      *)
(* element n).                                                             *)
(***************************************************************************)
\* C24: the buffer lists its messages oldest first and the window newest first,
\* both in arrival order; in every state the newest message is in both stores,
\* and the insertion of a message puts it behind the buffer and in front of the
\* window without reordering what stays.
C24_InsertionsInArrivalOrder ==
    /\ [](/\ \A i, j \in 1..Len(RECENT_MESSAGES_BUFFER) :
                i < j => RECENT_MESSAGES_BUFFER[i].element < RECENT_MESSAGES_BUFFER[j].element
          /\ \A i, j \in 1..Len(messageWindow) :
                i < j => messageWindow[i].element > messageWindow[j].element
          /\ deliveries > 0 =>
                /\ RECENT_MESSAGES_BUFFER # <<>>
                /\ messageWindow # <<>>
                /\ RECENT_MESSAGES_BUFFER[Len(RECENT_MESSAGES_BUFFER)].element = messageWindow[1].element
                /\ messageWindow[1].element = deliveries)
    /\ [][deliveries' # deliveries =>
             /\ messageWindow'[1].element = deliveries'
             /\ Tail(messageWindow') = SubSeq(messageWindow, 1, Len(messageWindow') - 1)
             /\ \A i \in 1..(Len(RECENT_MESSAGES_BUFFER') - 1) :
                    RECENT_MESSAGES_BUFFER'[i] =
                        RECENT_MESSAGES_BUFFER[Len(RECENT_MESSAGES_BUFFER)
                                                   - Len(RECENT_MESSAGES_BUFFER') + 1 + i]]_vars

\* a message was inserted while the window was full and the buffer held others
C24_Witness ==
    /\ deliveries > MAX_WINDOW_SIZE
    /\ Len(messageWindow) = MAX_WINDOW_SIZE
    /\ Len(RECENT_MESSAGES_BUFFER) >= 3
    /\ RECENT_MESSAGES_BUFFER[Len(RECENT_MESSAGES_BUFFER)].element = messageWindow[1].element

(***************************************************************************)
(* A message that arrives while a verification is in flight, checked under *)
(* Spec.                                                                   *)
(***************************************************************************)
\* C25: when a message with a new id is delivered while the verification of an
\* earlier message is in flight, the message is inserted into both stores and
\* its own call of checkForSolanaAddresses hands its candidate to processAddress
\* (a new verification, or the stored result of the address); the tasks in
\* flight are left as they are.
C25_IngestionNotBlocked ==
    [][(/\ deliveries' # deliveries
        /\ \E k \in 1..Len(tasks) : tasks[k].pc = "verify"
        /\ processedMessageIds' # processedMessageIds)
          =>
           /\ messageWindow'[1].text = cleanMessageText(delivered'[Len(delivered')])
           /\ RECENT_MESSAGES_BUFFER'[Len(RECENT_MESSAGES_BUFFER')].text
                  = cleanMessageText(delivered'[Len(delivered')])
           /\ SubSeq(tasks', 1, Len(tasks)) = tasks
           /\ \E k \in (Len(tasks) + 1)..Len(tasks') :
                  /\ tasks'[k].kind = "check"
                  /\ tasks'[k].text = cleanMessageText(delivered'[Len(delivered')])
                  /\ tasks'[k].cand # Null
                  /\ \/ tasks'[k].pc = "verify"
                     \/ tasks'[k].addr \in DOMAIN verificationResults]_vars

\* the calls of two messages are both waiting for their verification
C25_Witness ==
    /\ Cardinality(processedMessageIds) = 2
    /\ Len(messageWindow) = 2
    /\ \E j, k \in 1..Len(tasks) :
           /\ j < k
           /\ tasks[j].kind = "check" /\ tasks[j].pc = "verify"
           /\ tasks[k].kind = "check" /\ tasks[k].pc = "verify"

(***************************************************************************)
(* From the message to the forward: messages that hold a complete address  *)
(* after the marker, delivered while auto-send is switched on.             *)
(***************************************************************************)
CaText == <<"C", "A", ":", " ">> \o TestAddress

EndToEndNext ==
    \/ SetAutoSend(TRUE)
    \/ /\ deliveries < MaxDeliveries
       /\ autoSendToBloom = TRUE
       /\ Deliver(CaText, 0, 0)
    \/ \E k \in 1..Len(tasks), info \in Outcomes : VerificationReturns(k, info)
    \/ \E k \in 1..Len(tasks) : AiReturns(k, <<>>)
    \/ \E k \in 1..Len(tasks) : Resume(k)
    \/ \E address \in DOMAIN buttons : ClickSendToBloom(address)

SpecEndToEnd == Init /\ [][EndToEndNext]_vars

\* C26: one message "CA: " + address, delivered with auto-send on: when its
\* pipeline is done with a verified result, the address is the only candidate
\* that was processed, it was verified once, its result is stored and exactly one
\* pasteToBloomTab message was sent, for that address.
C26_EndToEnd ==
    (/\ delivered = <<CaText>>
     /\ tasks = <<>>
     /\ TestAddress \in DOMAIN verificationResults
     /\ IsVerified(verificationResults[TestAddress]))
        =>
         /\ foundAddresses = {TestAddress}
         /\ DOMAIN verificationResults = {TestAddress}
         /\ DOMAIN providerCalls = {TestAddress}
         /\ providerCalls[TestAddress] = 1
         /\ bloomSentAddresses = {TestAddress}
         /\ DOMAIN bloomRequests = {TestAddress}
         /\ bloomRequests[TestAddress] = 1

\* the pipeline of the message is done and the forward was not caused by a click
C26_Witness ==
    /\ delivered = <<CaText>>
    /\ tasks = <<>>
    /\ IsVerified(Get(verificationResults, TestAddress))
    /\ Get(bloomRequests, TestAddress) = 1
    /\ Clicks(TestAddress) = 0

(***************************************************************************)
(* The sequential pair check, checked under SpecPair.                      *)
(***************************************************************************)
\* the calls of checkSequentialMessages this step has started
StartedPairChecks ==
    {k \in (Len(tasks) + 1)..Len(tasks') : tasks'[k].kind = "seq"}

\* C27: an insertion into RECENT_MESSAGES_BUFFER that leaves two or more entries
\* starts one call of checkSequentialMessages, over the texts of the last two
\* entries; an insertion that leaves one entry starts none.
C27_OnePairCheckPerInsertion ==
    [][(deliveries' # deliveries /\ RECENT_MESSAGES_BUFFER' # RECENT_MESSAGES_BUFFER) =>
          IF Len(RECENT_MESSAGES_BUFFER') >= 2
          THEN /\ Cardinality(StartedPairChecks) = 1
               /\ \A k \in StartedPairChecks :
                      tasks'[k].text =
                          RECENT_MESSAGES_BUFFER'[Len(RECENT_MESSAGES_BUFFER') - 1].text
                              \o <<" ">>
                              \o RECENT_MESSAGES_BUFFER'[Len(RECENT_MESSAGES_BUFFER')].text
          ELSE StartedPairChecks = {}]_vars

\* the pair check of two different messages is running
C27_Witness ==
    /\ Len(RECENT_MESSAGES_BUFFER) = 2
    /\ \E k \in 1..Len(tasks) :
           /\ tasks[k].kind = "seq"
           /\ tasks[k].text = PrevFragment \o <<" ">> \o CurFragment

\* the maximal alphabet runs of at least 5 characters of a message
FragmentsOf(message) ==
    {SubSeq(message, i, i + RunLen(message, i, Base58) - 1) :
        i \in {j \in 1..Len(message) : /\ At(message, j - 1) \notin Base58
                                       /\ RunLen(message, j, Base58) >= 5}}

\* f1 + f2 and f2 + f1 for every fragment f1 of the older and f2 of the newer
\* message, as far as they have 32 to 44 characters, all of the alphabet
ValidPairCombinations(message1, message2) ==
    {c \in UNION {{f1 \o f2, f2 \o f1} : f1 \in FragmentsOf(message1),
                                         f2 \in FragmentsOf(message2)} :
        /\ Len(c) >= 32
        /\ Len(c) <= 44
        /\ \A i \in 1..Len(c) : c[i] \in Base58}

\* the candidate task t is processing and the candidates it has left
EmittedBy(t) == (IF t.cand = Null THEN {} ELSE {t.cand}) \cup {t.cands[i] : i \in 1..Len(t.cands)}

\* C28: for the last two buffered messages the candidates of the pair check are
\* exactly the strings f1 + f2 and f2 + f1 (f1 a fragment of the older, f2 of the
\* newer message) that are valid addresses; the call that a delivery starts
\* processes those of them that are not in foundAddresses already, and no other
\* string.
C28_PairCombinations ==
    /\ [](Len(RECENT_MESSAGES_BUFFER) >= 2 =>
             {SequentialCandidates(
                  RECENT_MESSAGES_BUFFER[Len(RECENT_MESSAGES_BUFFER) - 1].text,
                  RECENT_MESSAGES_BUFFER[Len(RECENT_MESSAGES_BUFFER)].text)[i] :
                 i \in 1..Len(SequentialCandidates(
                          RECENT_MESSAGES_BUFFER[Len(RECENT_MESSAGES_BUFFER) - 1].text,
                          RECENT_MESSAGES_BUFFER[Len(RECENT_MESSAGES_BUFFER)].text))}
               = ValidPairCombinations(
                     RECENT_MESSAGES_BUFFER[Len(RECENT_MESSAGES_BUFFER) - 1].text,
                     RECENT_MESSAGES_BUFFER[Len(RECENT_MESSAGES_BUFFER)].text))
    /\ [][\A k \in StartedPairChecks :
             /\ EmittedBy(tasks'[k]) \subseteq
                    ValidPairCombinations(
                        RECENT_MESSAGES_BUFFER'[Len(RECENT_MESSAGES_BUFFER') - 1].text,
                        RECENT_MESSAGES_BUFFER'[Len(RECENT_MESSAGES_BUFFER')].text)
             /\ ValidPairCombinations(
                    RECENT_MESSAGES_BUFFER'[Len(RECENT_MESSAGES_BUFFER') - 1].text,
                    RECENT_MESSAGES_BUFFER'[Len(RECENT_MESSAGES_BUFFER')].text)
                        \ foundAddresses
                    \subseteq EmittedBy(tasks'[k])]_vars

\* the pair check of two messages with two fragments each is processing one of its
\* three combinations
C28_Witness ==
    /\ Len(RECENT_MESSAGES_BUFFER) = 2
    /\ RECENT_MESSAGES_BUFFER[1].text = TwoFragments
    /\ RECENT_MESSAGES_BUFFER[2].text = TwoFragments
    /\ \E k \in 1..Len(tasks) :
           /\ tasks[k].kind = "seq"
           /\ tasks[k].pc = "verify"
           /\ Cardinality(EmittedBy(tasks[k])) = 3

(***************************************************************************)
(* Fragment and suffix within one message: a fragment of 28 characters,    *)
(* alone or followed by a part of the word pump, and the word pump.        *)
(***************************************************************************)
PlainFragment == Rep("7", 28)

CombineNext ==
    \/ /\ deliveries < MaxDeliveries
       /\ \E tail \in {<<>>, <<"p", "u">>, <<"p", "u", "m">>} :
              Deliver(PlainFragment \o tail \o <<" ">> \o LitPump, 0,
                      BUFFER_TIME_WINDOW_MS + 1)
    \/ \E k \in 1..Len(tasks), info \in Outcomes : VerificationReturns(k, info)
    \/ \E k \in 1..Len(tasks) : AiReturns(k, <<>>)
    \/ \E k \in 1..Len(tasks) : Resume(k)

SpecCombine == Init /\ [][CombineNext]_vars

\* the texts of the parts of a message that satisfy Is
PartTexts(cleanedText, Is(_)) ==
    {findPotentialAddressParts(cleanedText)[i].text :
        i \in {j \in 1..Len(findPotentialAddressParts(cleanedText)) :
                  Is(findPotentialAddressParts(cleanedText)[j])}}

\* the longest tail of the fragment that is a head of the suffix
OverlapLen(fragment, suffix) ==
    Max({k \in 0..Min({Len(fragment), Len(suffix)}) :
            \A j \in 1..k : fragment[Len(fragment) - k + j] = suffix[j]})

\* the fragment followed by what of the suffix does not overlap its tail
JoinAtOverlap(fragment, suffix) ==
    fragment \o SubSeq(suffix, OverlapLen(fragment, suffix) + 1, Len(suffix))

\* the fragment followed by the suffix, without the first three characters of the
\* suffix when the fragment ends with them
JoinAtThree(fragment, suffix) ==
    IF /\ Len(fragment) >= 3
       /\ Len(suffix) >= 3
       /\ \A j \in 1..3 : fragment[Len(fragment) - 3 + j] = suffix[j]
    THEN fragment \o SubSeq(suffix, 4, Len(suffix))
    ELSE fragment \o suffix

\* the joins of every plain fragment with every suffix that are valid addresses
ValidJoins(cleanedText, Join(_, _)) ==
    {c \in {Join(f, x) : f \in PartTexts(cleanedText, IsPlainFragment),
                         x \in PartTexts(cleanedText, IsSuffix)} :
        /\ Len(c) >= 32
        /\ Len(c) <= 44
        /\ \A i \in 1..Len(c) : c[i] \in Base58}

\* the candidates of the fragment and suffix strategy for a message
CombinationsOf(cleanedText) ==
    {FragmentSuffixCandidates(cleanedText)[i] :
        i \in 1..Len(FragmentSuffixCandidates(cleanedText))}

\* C29 as the specification words it: the suffix is appended without whatever
\* head of it the tail of the fragment already holds.
C29_OverlapRemainder ==
    /\ \A i \in 1..Len(delivered) :
           CombinationsOf(cleanMessageText(delivered[i]))
               = ValidJoins(cleanMessageText(delivered[i]), JoinAtOverlap)
    /\ \A k \in 1..Len(tasks) :
           tasks[k].stage = "combine" =>
               EmittedBy(tasks[k]) \subseteq ValidJoins(tasks[k].text, JoinAtOverlap)

\* C29, amended: for every plain fragment and every suffix part of a message the
\* combination is fragment + suffix, or fragment + the suffix from its fourth
\* character on when the fragment ends with the first three characters of the
\* suffix; the combinations that are valid addresses are the candidates of the
\* strategy, and nothing else is processed in its loop.
C29_ThreeCharacterOverlap ==
    /\ \A i \in 1..Len(delivered) :
           CombinationsOf(cleanMessageText(delivered[i]))
               = ValidJoins(cleanMessageText(delivered[i]), JoinAtThree)
    /\ \A k \in 1..Len(tasks) :
           tasks[k].stage = "combine" =>
               EmittedBy(tasks[k]) \subseteq ValidJoins(tasks[k].text, JoinAtThree)

\* a fragment that ends in "pu" was joined with the whole word pump, and a
\* fragment that ends in "pum" with its last letter
C29_Witness ==
    /\ \E k \in 1..Len(tasks) :
           /\ tasks[k].stage = "combine"
           /\ tasks[k].pc = "verify"
           /\ tasks[k].cand = PlainFragment \o <<"p", "u">> \o LitPump
    /\ (PlainFragment \o LitPump) \in foundAddresses
    /\ delivered[1] = PlainFragment \o <<"p", "u", "m", " ">> \o LitPump

(***************************************************************************)
(* The three collections of the registry: one text "<20 digits> pump"      *)
(* delivered with auto-send on, the reconstruction answering nothing or a  *)
(* 41-character body (which line 1040 extends by "pump" to 45 characters), *)
(* and clicks on the buttons displayAddressInDOM has created.              *)
(***************************************************************************)
RegistryNext ==
    \/ SetAutoSend(TRUE)
    \/ /\ deliveries < MaxDeliveries
       /\ autoSendToBloom = TRUE
       /\ Deliver(PumpText, 0, BUFFER_TIME_WINDOW_MS + 1)
    \/ \E k \in 1..Len(tasks), info \in Outcomes : VerificationReturns(k, info)
    \/ \E k \in 1..Len(tasks), answer \in {<<>>, <<LongBody>>} : AiReturns(k, answer)
    \/ \E k \in 1..Len(tasks) : Resume(k)
    \/ \E address \in DOMAIN buttons : ClickSendToBloom(address)

SpecRegistry == Init /\ [][RegistryNext]_vars

\* C30: in every reachable state every member of foundAddresses has 32 to 44
\* characters, all of the canonical alphabet; every key of verificationResults
\* is in foundAddresses; every address of bloomSentAddresses is in
\* foundAddresses.
C30_RegistryInvariant ==
    /\ \A a \in foundAddresses :
           /\ Len(a) >= 32
           /\ Len(a) <= 44
           /\ \A i \in 1..Len(a) :
                  a[i] \in (Digits \cup UpperCase \cup LowerCase) \ {"0", "O", "I", "l"}
    /\ DOMAIN verificationResults \subseteq foundAddresses
    /\ bloomSentAddresses \subseteq foundAddresses

\* a candidate of 45 alphabet characters was admitted as its first 44, and that
\* address has a stored result and was forwarded
C30_Witness ==
    \E k \in 1..Len(tasks) :
        /\ tasks[k].cand = LongBody \o LitPump
        /\ Len(tasks[k].cand) > 44
        /\ tasks[k].addr \in foundAddresses
        /\ tasks[k].addr # tasks[k].cand
        /\ tasks[k].addr \in DOMAIN verificationResults
        /\ tasks[k].addr \in bloomSentAddresses

(***************************************************************************)
(* The history kept in chrome.storage.local: calls of processAddress, the  *)
(* store serving the get and set requests in the order they were issued,   *)
(* and the callbacks of the get requests.                                  *)
(***************************************************************************)
MaxCalls == 2

HistoryAddresses == {TestAddress, SplitAddress}

\* chrome.storage.local.get(['addresses'], callback): lines 729 and 750
GetRequest(callback, cleanAddress, info) ==
    [op |-> "get", callback |-> callback, address |-> cleanAddress, info |-> info]

\* chrome.storage.local.set({ addresses: addresses }): lines 738 and 767
SetRequest(addresses) == [op |-> "set", addresses |-> addresses]

\* the callback of lines 729-739 on the list it was handed
AddEntry(addresses, cleanAddress) ==
    Append(addresses, [address |-> cleanAddress, verified |-> Null])

\* addresses.findIndex(a => a.address === cleanAddress)
findIndex(addresses, cleanAddress) ==
    IF \E i \in 1..Len(addresses) : addresses[i].address = cleanAddress
    THEN Min({i \in 1..Len(addresses) : addresses[i].address = cleanAddress})
    ELSE 0

\* the callback of lines 750-768 on the list it was handed
UpdateEntry(addresses, cleanAddress, info) ==
    IF findIndex(addresses, cleanAddress) > 0
    THEN [addresses EXCEPT ![findIndex(addresses, cleanAddress)].verified = info.verified]
    ELSE Append(addresses, [address |-> cleanAddress, verified |-> info.verified])

\* calls of processAddress that reached line 742
CallsMade == Get(providerCalls, TestAddress) + Get(providerCalls, SplitAddress)

\* processAddress(address) up to its await at line 742, for an address that has
\* no stored result (with one, lines 715-720 return and nothing changes)
CallProcessAddress(address) ==
    /\ CallsMade < MaxCalls
    /\ processAddressBegin(World, address).pending
    /\ Commit(processAddressBegin(World, address).w)
    /\ storageQueue' = Append(storageQueue, GetRequest("add", sanitizeAddress(address), NullResult))
    /\ awaiting' = Append(awaiting, sanitizeAddress(address))
    /\ UNCHANGED <<now, messageWindow, processedMessageIds, autoSendToBloom, tasks,
                   deliveries, delivered, bloomResponse, storedAddresses,
                   storageReplies, raceVars, scannerVars>>

\* the verification of the i-th suspended call settles: lines 745-785
VerificationSettles(i, info) ==
    /\ Commit(processAddressEnd(World, awaiting[i], info))
    /\ storageQueue' = Append(storageQueue, GetRequest("update", awaiting[i], info))
    /\ awaiting' = SubSeq(awaiting, 1, i - 1) \o SubSeq(awaiting, i + 1, Len(awaiting))
    /\ UNCHANGED <<now, messageWindow, processedMessageIds, autoSendToBloom, tasks,
                   deliveries, delivered, bloomResponse, storedAddresses,
                   storageReplies, raceVars, scannerVars>>

\* the store serves the oldest request: a get reads the list for its callback,
\* a set replaces the list
StoreServes ==
    /\ storageQueue # <<>>
    /\ storageQueue' = Tail(storageQueue)
    /\ IF Head(storageQueue).op = "get"
       THEN /\ storageReplies' =
                  Append(storageReplies,
                         [request |-> Head(storageQueue), addresses |-> storedAddresses])
            /\ UNCHANGED storedAddresses
       ELSE /\ storedAddresses' = Head(storageQueue).addresses
            /\ UNCHANGED storageReplies
    /\ UNCHANGED <<pipeVars, awaiting, raceVars, scannerVars>>

\* the list a callback stores, from the list it was handed
CallbackResult(reply) ==
    IF reply.request.callback = "add"
    THEN AddEntry(reply.addresses, reply.request.address)
    ELSE UpdateEntry(reply.addresses, reply.request.address, reply.request.info)

\* the callback of the oldest answered get runs: lines 729-739 or 750-768
GetCallback ==
    /\ storageReplies # <<>>
    /\ storageReplies' = Tail(storageReplies)
    /\ storageQueue' = Append(storageQueue, SetRequest(CallbackResult(Head(storageReplies))))
    /\ UNCHANGED <<pipeVars, storedAddresses, awaiting, raceVars, scannerVars>>

HistoryNext ==
    \/ \E address \in HistoryAddresses : CallProcessAddress(address)
    \/ \E i \in 1..Len(awaiting), info \in Outcomes : VerificationSettles(i, info)
    \/ StoreServes
    \/ GetCallback

SpecHistory == Init /\ [][HistoryNext]_vars

\* every call has returned and every request and callback of the store has run
HistoryQuiescent == awaiting = <<>> /\ storageQueue = <<>> /\ storageReplies = <<>>

\* C31: once every call of processAddress has returned and every get and set
\* callback has run, the stored list has an entry for every address of
\* foundAddresses.
C31_HistoryComplete ==
    HistoryQuiescent =>
        \A a \in foundAddresses :
            \E i \in 1..Len(storedAddresses) : storedAddresses[i].address = a

(***************************************************************************)
(* Message elements with DOM ids: every delivery is a new element or an    *)
(* element delivered before (the observer reports a node again when the    *)
(* page re-renders it), with the text of a fragment.                       *)
(***************************************************************************)
MaxHandleDeliveries == 3

\* one fragment of 20 characters
HalfFragment == Rep("7", 20)

HandlesNext ==
    \/ /\ deliveries < MaxHandleDeliveries
       /\ \E text \in {PrevFragment, CurFragment, HalfFragment},
             element \in 1..(deliveries + 1) :
              Deliver(text, element, 0)
    \/ \E k \in 1..Len(tasks), info \in Outcomes : VerificationReturns(k, info)
    \/ \E k \in 1..Len(tasks) : AiReturns(k, <<>>)
    \/ \E k \in 1..Len(tasks) : Resume(k)

SpecHandles == Init /\ [][HandlesNext]_vars

\* C32: every candidate a call of checkSequentialMessages hands to
\* processAddress carries the element of the newer of the two messages the call
\* paired (src: the newest element when the call started), also when messages
\* were inserted while the call was suspended.
C32_PairHandleIsNewerMessage ==
    \A k \in 1..Len(tasks) :
        (tasks[k].kind = "seq" /\ tasks[k].cand # Null) => tasks[k].el = tasks[k].src

\* C33: the two messages a call of checkSequentialMessages pairs have distinct
\* message ids whenever the call forms a candidate from their fragments.
C33_PairedMessagesDistinct ==
    [][\A k \in StartedPairChecks :
          tasks'[k].cand # Null =>
              getMessageId(RECENT_MESSAGES_BUFFER'[Len(RECENT_MESSAGES_BUFFER') - 1].element,
                           deliveries)
                  # getMessageId(RECENT_MESSAGES_BUFFER'[Len(RECENT_MESSAGES_BUFFER')].element,
                                  deliveries)]_vars

\* C34: an address admitted by a call of processAddress for a reconstruction
\* candidate (lines 1042 and 940) is one of the lines of the provider's last
\* response that passed the filter of line 661.
C34_AdmitsOnlyReturnedLines ==
    \A k \in 1..Len(tasks) :
        (tasks[k].stage \in {"aiAddrs", "pairAi"} /\ tasks[k].addr # Null) =>
            /\ tasks[k].addr \in foundAddresses
            /\ \E i \in 1..Len(tasks[k].lines) : tasks[k].lines[i] = tasks[k].addr

(***************************************************************************)
(* sanitizeAddress on addresses that hold the word of the badge text:      *)
(* messages whose text is one run of 44 alphabet characters.               *)
(***************************************************************************)
\* 'Verifying' and 35 more characters
VerifyingAddress == LitVerifying \o Rep("7", 35)
\* 'Verif' + 'Verifying777' + 'ying' and 23 more characters
NestedVerifyingAddress ==
    <<"V", "e", "r", "i", "f">> \o LitVerifying \o Rep("7", 3)
        \o <<"y", "i", "n", "g">> \o Rep("7", 23)

SanitizeNext ==
    \/ /\ deliveries < MaxDeliveries
       /\ \E text \in {TestAddress, VerifyingAddress, NestedVerifyingAddress},
             element \in Elements :
              Deliver(text, element, 0)
    \/ \E k \in 1..Len(tasks), info \in Outcomes : VerificationReturns(k, info)
    \/ \E k \in 1..Len(tasks) : AiReturns(k, <<>>)
    \/ \E k \in 1..Len(tasks) : Resume(k)

SpecSanitize == Init /\ [][SanitizeNext]_vars

\* C35: sanitizeAddress returns a string of 32 to 44 alphabet characters as it
\* is, and whatever it returns it returns again when applied to it.
C35_SanitizeIdentityIdempotent ==
    \A k \in 1..Len(tasks) :
        tasks[k].cand # Null =>
            /\ (/\ Len(tasks[k].cand) >= 32
                /\ Len(tasks[k].cand) <= 44
                /\ \A i \in 1..Len(tasks[k].cand) : tasks[k].cand[i] \in Base58)
                   => sanitizeAddress(tasks[k].cand) = tasks[k].cand
            /\ sanitizeAddress(tasks[k].cand) # Null =>
                   sanitizeAddress(sanitizeAddress(tasks[k].cand))
                       = sanitizeAddress(tasks[k].cand)

\* C36: an address whose result was stored while auto-send was off is not
\* forwarded by a later return of processAddress: the first pasteToBloomTab
\* message for it is sent by a click on its button.  (A stored result with no
\* forward yet means auto-send was off whenever the result was stored: with
\* auto-send on, lines 781-783 call sendToBloomBot in the same step.)
C36_StoredWhileOffNeverAutoForwarded ==
    [][\A a \in DOMAIN verificationResults :
          (/\ a \notin bloomSentAddresses
           /\ Get(bloomRequests, a) = 0
           /\ Get(bloomRequests', a) > 0)
              => Get(buttons', a) < Get(buttons, a)]_vars

(***************************************************************************)
(* The scanner switch: the toggle button, navigation, and the callback of  *)
(* the observer of the chat container.                                     *)
(***************************************************************************)
MaxObservers == 3
MaxIgnored == 2

\* isScanning, observer and the observers attached, as one value
Scanner ==
    [isScanning |-> isScanning, observer |-> observer, attached |-> attached,
     made |-> observersMade]

\* lines 1136-1139
Disconnect(s) ==
    IF s.observer # 0
    THEN [s EXCEPT !.attached = @ \ {s.observer}, !.observer = 0]
    ELSE s

\* updateScannedStatus(active): line 1184
updateScannedStatus(s, active) == [s EXCEPT !.isScanning = active]

\* lines 1146-1179 for the outcome of the lookup of the chat container
Observe(s, containerFound) ==
    IF ~containerFound
    THEN updateScannedStatus(s, FALSE)
    ELSE [s EXCEPT !.observer = s.made + 1, !.attached = @ \cup {s.made + 1},
                   !.made = @ + 1]

\* setupObserver(): lines 1135-1180
setupObserver(s, containerFound) == Observe(Disconnect(s), containerFound)

SetScanner(s) ==
    /\ isScanning' = s.isScanning
    /\ observer' = s.observer
    /\ attached' = s.attached
    /\ observersMade' = s.made

\* the click handler of the toggle button: lines 1229-1238
ToggleClick(containerFound) ==
    /\ NoMicrotask
    /\ observersMade < MaxObservers
    /\ SetScanner(IF isScanning
                  THEN updateScannedStatus(Scanner, FALSE)
                  ELSE updateScannedStatus(setupObserver(Scanner, containerFound), TRUE))
    /\ UNCHANGED <<pipeVars, raceVars, storageVars, ignoredCallbacks>>

\* the timer callback set after a change of location.href: lines 1405-1410
NavigationTimer(containerFound) ==
    /\ NoMicrotask
    /\ observersMade < MaxObservers
    /\ isScanning
    /\ SetScanner(updateScannedStatus(setupObserver(Scanner, containerFound), TRUE))
    /\ UNCHANGED <<pipeVars, raceVars, storageVars, ignoredCallbacks>>

\* faulty variant: the callback without the check of line 1158
ObserverCallback_NoCheck(text, element) ==
    /\ deliveries < MaxDeliveries
    /\ Deliver(text, element, 0)

\* the callback of the attached observer for one added message element:
\* lines 1157-1175
ObserverCallback(text, element) ==
    IF ~isScanning
    THEN /\ NoMicrotask
         /\ ignoredCallbacks < MaxIgnored
         /\ ignoredCallbacks' = ignoredCallbacks + 1
         /\ UNCHANGED <<pipeVars, raceVars, storageVars, isScanning, observer, attached,
                        observersMade>>
    ELSE /\ deliveries < MaxDeliveries
         /\ Deliver(text, element, 0)

\* after initializeTree (lines 1390-1396): setupObserver has run, with or without
\* a chat container, and the scanner is paused
ScannerLoaded ==
    /\ isScanning = FALSE
    /\ ignoredCallbacks = 0
    /\ \E containerFound \in BOOLEAN :
           /\ observer = (IF containerFound THEN 1 ELSE 0)
           /\ attached = (IF containerFound THEN {1} ELSE {})
           /\ observersMade = (IF containerFound THEN 1 ELSE 0)

ScannerNext ==
    \/ \E containerFound \in BOOLEAN : ToggleClick(containerFound)
    \/ \E containerFound \in BOOLEAN : NavigationTimer(containerFound)
    \/ /\ attached # {}
       /\ \E element \in Elements : ObserverCallback(TestAddress, element)
    \/ \E k \in 1..Len(tasks), info \in Outcomes : VerificationReturns(k, info)
    \/ \E k \in 1..Len(tasks) : AiReturns(k, <<>>)
    \/ \E k \in 1..Len(tasks) : Resume(k)

InitScanner == PipelineInit /\ RaceIdle /\ StorageIdle /\ ScannerLoaded

SpecScanner == InitScanner /\ [][ScannerNext]_vars

\* C37: a callback of the observer that runs while isScanning is false changes
\* none of messageWindow, RECENT_MESSAGES_BUFFER, processedMessageIds,
\* foundAddresses, verificationResults, bloomSentAddresses, and starts no call
\* of a verification or reconstruction provider.
C37_PausedCallbackChangesNothing ==
    [][(/\ ~isScanning
        /\ (deliveries' # deliveries \/ ignoredCallbacks' # ignoredCallbacks))
          => /\ UNCHANGED <<messageWindow, RECENT_MESSAGES_BUFFER, processedMessageIds,
                           foundAddresses, verificationResults, bloomSentAddresses,
                           providerCalls>>
             /\ tasks' = tasks]_vars

\* the scanner ran, a verification it started is pending, and a callback has
\* returned at line 1158 after the scanner was paused
C37_Witness ==
    /\ ~isScanning
    /\ ignoredCallbacks > 0
    /\ deliveries > 0
    /\ \E k \in 1..Len(tasks) : tasks[k].pc = "verify"

\* C38: whenever isScanning is true an observer is attached to the chat
\* container, and at most one observer is attached at any time.
C38_ScanningHasOneObserver ==
    /\ isScanning => (observer # 0 /\ observer \in attached)
    /\ Cardinality(attached) <= 1

====
